---- MODULE Spec2Model ----
(***************************************************************************)
(* Model of the interactive session browser of rust-search-ui              *)
(* (src/rust-search-ui/src/main.rs): the App view model, the filter/sort   *)
(* pipeline App::filter, the key dispatch chain of main and the render     *)
(* time scroll clamps.                                                     *)
(*                                                                         *)
(* Strings are sequences of one-character strings, Option<T> is a sequence *)
(* of length 0 (None) or 1 (Some).  The handlers are operators on the App  *)
(* record, named as in the source; the actions apply them.                 *)
(***************************************************************************)
EXTENDS Integers, Sequences, FiniteSets, TLC

(***************************************************************************)
(* Bounds of the model                                                     *)
(***************************************************************************)
\* longest query the model lets the user type
MaxQuery == 1
\* most arguments after the binary's name of a command line drawn freely
MaxArgs == 3
\* longest input_buffer / view_search_pattern the model lets the user type
MaxBuf == 2
\* most lines of a transcript file whose content is drawn freely
MaxLines == 3
\* largest full_content_scroll the model lets a scroll key produce
MaxScroll == 4

(***************************************************************************)
(* Option and string helpers                                               *)
(***************************************************************************)
None == <<>>
Some(x) == <<x>>
IsSome(o) == o /= <<>>
Unwrap(o) == o[1]

Min(x, y) == IF x <= y THEN x ELSE y
Max(x, y) == IF x >= y THEN x ELSE y
\* usize::saturating_sub
SatSub(x, y) == IF x >= y THEN x - y ELSE 0

\* str::starts_with
StartsWith(s, p) == Len(s) >= Len(p) /\ SubSeq(s, 1, Len(p)) = p
\* str::ends_with
EndsWith(s, p) == Len(s) >= Len(p) /\ SubSeq(s, Len(s) - Len(p) + 1, Len(s)) = p
\* str::contains
Contains(s, p) == \E i \in 0..(Len(s) - Len(p)) : SubSeq(s, i + 1, i + Len(p)) = p
\* String::pop (no effect on the empty string)
Pop(s) == IF s = <<>> THEN s ELSE SubSeq(s, 1, Len(s) - 1)
\* Vec::truncate
Truncate(s, n) == IF Len(s) > n THEN SubSeq(s, 1, n) ELSE s
\* the elements of a sequence
Range(s) == {s[i] : i \in 1..Len(s)}

IsSpace(c) == c = " "
\* str::trim().is_empty()
IsBlank(s) == \A i \in 1..Len(s) : IsSpace(s[i])

\* str::split_whitespace, as the sequence of words
RECURSIVE SplitWs(_, _, _)
SplitWs(s, cur, acc) ==
    IF s = <<>> THEN (IF cur = <<>> THEN acc ELSE Append(acc, cur))
    ELSE IF IsSpace(Head(s))
         THEN SplitWs(Tail(s), <<>>, IF cur = <<>> THEN acc ELSE Append(acc, cur))
         ELSE SplitWs(Tail(s), Append(cur, Head(s)), acc)
split_whitespace(s) == SplitWs(s, <<>>, <<>>)

\* lexicographic order of two sequences of numbers (String::cmp on timestamps
\* of one layout): TRUE iff x < y
RECURSIVE LexLess(_, _)
LexLess(x, y) ==
    IF y = <<>> THEN FALSE
    ELSE IF x = <<>> THEN TRUE
    ELSE IF Head(x) /= Head(y) THEN Head(x) < Head(y)
    ELSE LexLess(Tail(x), Tail(y))

\* slice::sort_by / sort_by_key: a stable sort; before[x, y] is "x orders
\* strictly before y", the comparator tabulated over the elements.  Each element is inserted behind every element that
\* does not order strictly after it.
InsertAt(acc, x, pos) == SubSeq(acc, 1, pos - 1) \o <<x>> \o SubSeq(acc, pos, Len(acc))
\* the first of the positions in later, or n + 1 when there is none
InsertPos(later, n) ==
    IF later = {} THEN n + 1 ELSE CHOOSE j \in later : \A k \in later : j <= k
InsertSorted(acc, x, before) ==
    InsertAt(acc, x, InsertPos({j \in 1..Len(acc) : before[x, acc[j]]}, Len(acc)))
StableSort(seq, before) ==
    LET ins[i \in 0..Len(seq)] ==
            IF i = 0 THEN <<>> ELSE InsertSorted(ins[i - 1], seq[i], before)
    IN ins[Len(seq)]

(***************************************************************************)
(* Dates.  A calendar date is the number YYYYMMDD, which orders as the     *)
(* 8-character string the code compares.                                   *)
(***************************************************************************)
Digits == {"0", "1", "2", "3", "4", "5", "6", "7", "8", "9"}
DigitVal(c) ==
    CASE c = "0" -> 0 [] c = "1" -> 1 [] c = "2" -> 2 [] c = "3" -> 3 [] c = "4" -> 4
      [] c = "5" -> 5 [] c = "6" -> 6 [] c = "7" -> 7 [] c = "8" -> 8 [] c = "9" -> 9
IsNumber(s) == s /= <<>> /\ \A i \in 1..Len(s) : s[i] \in Digits
RECURSIVE NumVal(_)
NumVal(s) == IF s = <<>> THEN 0 ELSE 10 * NumVal(Pop(s)) + DigitVal(s[Len(s)])

\* str::trim
RECURSIVE TrimStart(_)
TrimStart(s) == IF s /= <<>> /\ IsSpace(Head(s)) THEN TrimStart(Tail(s)) ELSE s
RECURSIVE TrimEnd(_)
TrimEnd(s) == IF s /= <<>> /\ IsSpace(s[Len(s)]) THEN TrimEnd(Pop(s)) ELSE s
Trim(s) == TrimEnd(TrimStart(s))

\* the fields of s between occurrences of the separator sep
RECURSIVE SplitOn(_, _, _, _)
SplitOn(s, sep, cur, acc) ==
    IF s = <<>> THEN Append(acc, cur)
    ELSE IF Head(s) = sep THEN SplitOn(Tail(s), sep, <<>>, Append(acc, cur))
    ELSE SplitOn(Tail(s), sep, Append(cur, Head(s)), acc)
Fields(s, sep) == SplitOn(s, sep, <<>>, <<>>)

\* the year chrono::Utc::now() reports
current_year == 2026

DaysIn(y, m) ==
    IF m \in {4, 6, 9, 11} THEN 30
    ELSE IF m = 2 THEN (IF y % 4 = 0 /\ (y % 100 /= 0 \/ y % 400 = 0) THEN 29 ELSE 28)
    ELSE 31
\* NaiveDate from year, month, day: None unless it is a calendar date
MakeDate(y, m, d) ==
    IF m \in 1..12 /\ d >= 1 /\ d <= DaysIn(y, m) THEN Some(y * 10000 + m * 100 + d) ELSE None
\* chrono's numeric items: %Y takes up to 4 digits, %m %d %y up to 2
IsYear4(f) == IsNumber(f) /\ Len(f) <= 4
IsNum2(f) == IsNumber(f) /\ Len(f) <= 2
\* %y: 00..68 are 2000..2068, 69..99 are 1969..1999
Year2(f) == IF NumVal(f) < 69 THEN 2000 + NumVal(f) ELSE 1900 + NumVal(f)

\* NaiveDate::parse_from_str(input, fmt) for the formats of the code; the
\* result is Some(YYYYMMDD) or None
ParseYmdPlain(s) ==
    IF IsNumber(s) /\ Len(s) >= 3 /\ Len(s) <= 8
    THEN LET yl == Min(4, Len(s))
             rest == SubSeq(s, yl + 1, Len(s))
             ml == Min(2, Len(rest))
             dd == SubSeq(rest, ml + 1, Len(rest))
         IN IF rest = <<>> \/ dd = <<>> THEN None
            ELSE MakeDate(NumVal(SubSeq(s, 1, yl)), NumVal(SubSeq(rest, 1, ml)), NumVal(dd))
    ELSE None
ParseYMD(s, sep) ==
    LET f == Fields(s, sep)
    IN IF Len(f) = 3 /\ IsYear4(f[1]) /\ IsNum2(f[2]) /\ IsNum2(f[3])
       THEN MakeDate(NumVal(f[1]), NumVal(f[2]), NumVal(f[3])) ELSE None
ParseMDy(s, sep) ==
    LET f == Fields(s, sep)
    IN IF Len(f) = 3 /\ IsNum2(f[1]) /\ IsNum2(f[2]) /\ IsNum2(f[3])
       THEN MakeDate(Year2(f[3]), NumVal(f[1]), NumVal(f[2])) ELSE None
ParseMDY(s, sep) ==
    LET f == Fields(s, sep)
    IN IF Len(f) = 3 /\ IsNum2(f[1]) /\ IsNum2(f[2]) /\ IsYear4(f[3])
       THEN MakeDate(NumVal(f[3]), NumVal(f[1]), NumVal(f[2])) ELSE None
\* "%m/%d" or "%m-%d" with "/<current year>" appended
ParseMD(s, sep) ==
    LET f == Fields(s, sep)
    IN IF Len(f) = 2 /\ IsNum2(f[1]) /\ IsNum2(f[2])
       THEN MakeDate(current_year, NumVal(f[1]), NumVal(f[2])) ELSE None

FirstSome(opts) ==
    LET hits == {i \in 1..Len(opts) : IsSome(opts[i])}
    IN IF hits = {} THEN None ELSE opts[CHOOSE i \in hits : \A j \in hits : i <= j]

\* parse_flexible_date: Some(<<comparison, display>>) or None; both are
\* formatted from the one parsed date, which stands for the pair here
parse_flexible_date(input) ==
    LET s == Trim(input)
    IN IF s = <<>> THEN None
       ELSE FirstSome(<< ParseYmdPlain(s), ParseYMD(s, "-"), ParseMDy(s, "/"),
                         ParseMDy(s, "-"), ParseMDY(s, "/"), ParseMDY(s, "-"),
                         ParseYMD(s, "/"), ParseMD(s, "/"), ParseMD(s, "-") >>)

\* extract_date_for_comparison: the YYYYMMDD of a timestamp <<date, time>>;
\* None for a timestamp that does not parse (modelled as the empty one)
extract_date_for_comparison(timestamp) ==
    IF Len(timestamp) >= 1 THEN Some(timestamp[1]) ELSE None

(***************************************************************************)
(* The environment: the launch directory, the home filters the CLI always  *)
(* resolves (parse_cli_args falls back to ~/.claude and ~/.codex), and the *)
(* index with its transcript files.                                        *)
(***************************************************************************)
launch_cwd == <<"/", "p">>
HomeDir == <<"/", "h">>
DefaultClaudeHome == <<"h", "c">>
DefaultCodexHome == <<"h", "x">>
OtherHome == <<"h", "o">>
JsonlExt == <<".", "j", "s", "o", "n", "l">>

\* the day chrono::Utc::now() reports, as YYYYMMDD
today == 20260110

\* The documents of the index, in the order the match-all collector returns
\* them.  text is the tokenized body (the "content" field), weight the
\* per-term score the index's scorer gives the document, preview_lines the
\* number of lines render_preview lays out for the session.
IndexDocs == <<
    [session_id |-> "s1", agent |-> "claude", cwd |-> <<"/", "p">>,
     modified |-> <<20260109, 1>>, lines |-> 2, export_path |-> <<"1">> \o JsonlExt,
     derivation_type |-> "trimmed", is_sidechain |-> FALSE, claude_home |-> DefaultClaudeHome,
     text |-> << <<"a">>, <<"v">> >>, weight |-> 1, preview_lines |-> 2],
    [session_id |-> "s2", agent |-> "claude", cwd |-> <<"/", "p">>,
     modified |-> <<20260110, 1>>, lines |-> 9, export_path |-> <<"2">> \o JsonlExt,
     derivation_type |-> "", is_sidechain |-> FALSE, claude_home |-> DefaultClaudeHome,
     text |-> << <<"a">> >>, weight |-> 1, preview_lines |-> 6],
    [session_id |-> "s3", agent |-> "codex", cwd |-> <<"/", "p">>,
     modified |-> <<20260109, 1>>, lines |-> 5, export_path |-> <<"3">>,
     derivation_type |-> "continued", is_sidechain |-> FALSE, claude_home |-> DefaultCodexHome,
     text |-> << <<"v">>, <<"a">>, <<"a">>, <<"a">> >>, weight |-> 3, preview_lines |-> 3],
    [session_id |-> "s4", agent |-> "claude", cwd |-> <<"/", "p">>,
     modified |-> <<20260105, 2>>, lines |-> 5, export_path |-> <<"4">> \o JsonlExt,
     derivation_type |-> "", is_sidechain |-> TRUE, claude_home |-> DefaultClaudeHome,
     text |-> << <<"a">> >>, weight |-> 2, preview_lines |-> 1],
    [session_id |-> "s5", agent |-> "claude", cwd |-> <<"/", "p", "/", "s">>,
     modified |-> <<20260105, 1>>, lines |-> 7, export_path |-> <<"5">> \o JsonlExt,
     derivation_type |-> "trimmed", is_sidechain |-> TRUE, claude_home |-> <<>>,
     text |-> << <<"a">>, <<"v">> >>, weight |-> 1, preview_lines |-> 0],
    [session_id |-> "s6", agent |-> "claude", cwd |-> <<"/", "p", "2">>,
     modified |-> <<20251201, 1>>, lines |-> 7, export_path |-> <<"6">>,
     derivation_type |-> "", is_sidechain |-> FALSE, claude_home |-> OtherHome,
     text |-> << <<"v">> >>, weight |-> 1, preview_lines |-> 2],
    [session_id |-> "s7", agent |-> "codex", cwd |-> <<>>,
     modified |-> <<>>, lines |-> 0, export_path |-> <<"7">> \o JsonlExt,
     derivation_type |-> "forked", is_sidechain |-> FALSE, claude_home |-> <<>>,
     text |-> << <<"z">> >>, weight |-> 1, preview_lines |-> 2] >>

\* load_sessions: the documents sorted by descending modified (stable) and
\* cut to the limit; the index-only fields ride along unread
ModifiedDesc(x, y) == LexLess(y.modified, x.modified)
load_sessions(docs, limit) ==
    Truncate(StableSort(docs, [x, y \in Range(docs) |-> ModifiedDesc(x, y)]), limit)

SESSION_LIMIT == 100000
sessions == load_sessions(IndexDocs, SESSION_LIMIT)
SessionIdx == 1..Len(sessions)

\* A line of a transcript file: json says whether it parses as JSON, role
\* and msg are what extract_message_from_json finds in it (role "" when it
\* finds none), raw is the line as text.
TextLine(t) == [json |-> FALSE, role |-> "", msg |-> <<>>, raw |-> t]
JsonLine(r, m) == [json |-> TRUE, role |-> r, msg |-> m, raw |-> <<"{">>]
\* the transcript files on disk: for each export_path of the index, the
\* lines of the file, or None when the file cannot be read
VARIABLE files
ExportPaths == {IndexDocs[i].export_path : i \in 1..Len(IndexDocs)}
TranscriptFiles ==
    [path \in ExportPaths |->
        CASE path = <<"1">> \o JsonlExt ->
                Some(<< JsonLine("user", << <<"a">>, <<"v">> >>), TextLine(<<"x">>),
                        JsonLine("assistant", << <<"v">> >>), JsonLine("user", << <<" ">> >>),
                        JsonLine("assistant", << <<"a">> >>) >>)
          [] path = <<"2">> \o JsonlExt -> Some(<< JsonLine("user", << <<"a">> >>) >>)
          [] path = <<"3">> -> Some(<< TextLine(<<"a">>), TextLine(<<"v">>) >>)
          [] path = <<"7">> \o JsonlExt -> Some(<<>>)
          [] OTHER -> None]
\* std::fs::read_to_string(export_path): Some(lines) or None on failure
read_to_string(path) == IF path \in DOMAIN files THEN files[path] ELSE None

(***************************************************************************)
(* search_tantivy: the query engine.  The index's scorer is a library; it  *)
(* is modelled as occurrences times the document's weight.                 *)
(***************************************************************************)
Occurrences(text, w) == Cardinality({i \in 1..Len(text) : text[i] = w})
PhraseOccurrences(text, ws) ==
    Cardinality({i \in 0..(Len(text) - Len(ws)) : SubSeq(text, i + 1, i + Len(ws)) = ws})
TermScore(d, ws) ==
    LET sum[i \in 0..Len(ws)] ==
            IF i = 0 THEN 0 ELSE sum[i - 1] + Occurrences(d.text, ws[i]) * d.weight
    IN sum[Len(ws)]
\* the base query, OR the phrase query boosted 5.0 when there are several words
ContentScore(d, ws) ==
    TermScore(d, ws) + (IF Len(ws) > 1 THEN 5 * PhraseOccurrences(d.text, ws) * d.weight ELSE 0)
\* the home clause: the document's claude_home is one of the given homes
HomeClause(d, fch, fcx) ==
    LET homes == Range(fch) \cup Range(fcx)
    IN homes = {} \/ d.claude_home \in homes
\* 1 + exp(-age / 7 days), in percent, age in days (an unparseable
\* timestamp counts as the epoch)
RecencyPct(modified) ==
    LET age == IF modified = <<>> THEN 20000 ELSE Max(0, today - modified[1])
    IN IF age = 0 THEN 200 ELSE IF age = 1 THEN 187 ELSE IF age <= 7 THEN 149
       ELSE IF age <= 30 THEN 105 ELSE 100
FinalScore(d, ws) == ContentScore(d, ws) * RecencyPct(d.modified)
Snippet(d, ws) ==
    LET hit == CHOOSE i \in 1..Len(d.text) : \E j \in 1..Len(ws) : d.text[i] = ws[j]
    IN <<"<b>">> \o d.text[hit] \o <<"</b>">>

\* searcher.search(&final_query, &TopDocs::with_limit(2000)): the hits by
\* descending score (lines 2717-2719)
TopDocs(ws, filter_claude_home, filter_codex_home) ==
    StableSort(SelectSeq(IndexDocs,
                         LAMBDA d : TermScore(d, ws) > 0
                                    /\ HomeClause(d, filter_claude_home, filter_codex_home)),
               [x, y \in Range(IndexDocs) |-> ContentScore(x, ws) > ContentScore(y, ws)])
\* the hits re-sorted by score times recency (lines 2735-2768)
Scored(top_docs, ws) ==
    StableSort(top_docs, [x, y \in Range(top_docs) |-> FinalScore(x, ws) > FinalScore(y, ws)])
\* the snippet map and the ranked ids (lines 2770-2784)
SearchResult(scored, ws) ==
    [snippets |-> [id \in {scored[i].session_id : i \in 1..Len(scored)} |->
                      Snippet(CHOOSE d \in Range(scored) : d.session_id = id, ws)],
     ranked_ids |-> [i \in 1..Len(scored) |-> scored[i].session_id]]
SearchWords(ws, filter_claude_home, filter_codex_home) ==
    SearchResult(Scored(TopDocs(ws, filter_claude_home, filter_codex_home), ws), ws)

\* The index directories a search may find at index_path: the one with the
\* schema the indexer writes, one whose schema has no "content" field (the
\* session list loads from it, a search does not), and one removed since the
\* session list was loaded.
SearchIndex == <<"i">>
BareIndex == <<"b">>
LostIndex == <<"l">>
LoadedFields ==
    {"session_id", "agent", "project", "branch", "cwd", "created", "modified", "lines",
     "export_path", "first_msg_role", "first_msg_content", "last_msg_role",
     "last_msg_content", "derivation_type", "is_sidechain", "claude_home"}
\* Index::open_in_dir(index_path) and index.schema(): the fields of the
\* schema, or None when the directory does not open (line 2645)
open_in_dir(index_path) ==
    CASE index_path = SearchIndex -> Some(LoadedFields \cup {"content"})
      [] index_path = BareIndex -> Some(LoadedFields)
      [] OTHER -> None
\* the closure runs to its end: the index opens and get_field finds the
\* three fields it asks for with `.ok()?` (lines 2645-2651)
ClosureCompletes(index_path) ==
    /\ IsSome(open_in_dir(index_path))
    /\ {"content", "session_id", "modified"} \subseteq Unwrap(open_in_dir(index_path))

\* search_tantivy with the closure's result taken without its checks
search_tantivy_unchecked(index_path, query_str, filter_claude_home, filter_codex_home) ==
    IF IsBlank(query_str) THEN [snippets |-> <<>>, ranked_ids |-> <<>>]
    ELSE SearchWords(split_whitespace(query_str), filter_claude_home, filter_codex_home)
search_tantivy(index_path, query_str, filter_claude_home, filter_codex_home) ==
    IF IsBlank(query_str) THEN [snippets |-> <<>>, ranked_ids |-> <<>>]
    ELSE IF ~ClosureCompletes(index_path) THEN [snippets |-> <<>>, ranked_ids |-> <<>>]
    ELSE SearchWords(split_whitespace(query_str), filter_claude_home, filter_codex_home)

(***************************************************************************)
(* App::filter, the filter/sort pipeline                                   *)
(***************************************************************************)
\* home filter, by the session's agent (lines 621-636)
HomePass(a, s) ==
    LET home == IF s.agent = "codex" THEN a.filter_codex_home ELSE a.filter_claude_home
    IN ~(IsSome(home) /\ s.claude_home /= <<>> /\ s.claude_home /= Unwrap(home))
\* scope filter: filter_dir overrides scope_global (lines 638-651)
\* the scope step with filter_dir left unread
ScopePassNoDir(a, s) == ~(~a.scope_global /\ s.cwd /= <<>> /\ s.cwd /= launch_cwd)
\* the scope step with the directory matched as a bare prefix
ScopePassByPrefix(a, s) ==
    IF IsSome(a.filter_dir)
    THEN s.cwd = <<>> \/ StartsWith(s.cwd, Unwrap(a.filter_dir))
    ELSE ~(~a.scope_global /\ s.cwd /= <<>> /\ s.cwd /= launch_cwd)
\* the scope step with the local scope reaching below the launch directory
ScopePassBelowLaunch(a, s) ==
    IF IsSome(a.filter_dir)
    THEN s.cwd = <<>> \/ s.cwd = Unwrap(a.filter_dir)
                     \/ StartsWith(s.cwd, Unwrap(a.filter_dir) \o <<"/">>)
    ELSE ~(~a.scope_global /\ s.cwd /= <<>> /\ s.cwd /= launch_cwd
             /\ ~StartsWith(s.cwd, launch_cwd \o <<"/">>))
ScopePass(a, s) ==
    IF IsSome(a.filter_dir)
    THEN s.cwd = <<>> \/ s.cwd = Unwrap(a.filter_dir)
                     \/ StartsWith(s.cwd, Unwrap(a.filter_dir) \o <<"/">>)
    ELSE ~(~a.scope_global /\ s.cwd /= <<>> /\ s.cwd /= launch_cwd)
\* inclusion by session type (lines 653-673)
\* the type step with the derivation toggles applied to sub-agent sessions too
TypePassByDerivation(a, s) ==
    /\ s.is_sidechain => a.include_sub
    /\ CASE s.derivation_type = "" -> a.include_original
         [] s.derivation_type = "trimmed" -> a.include_trimmed
         [] s.derivation_type = "continued" -> a.include_continued
         [] OTHER -> TRUE
TypePass(a, s) ==
    IF s.is_sidechain THEN a.include_sub
    ELSE CASE s.derivation_type = "" -> a.include_original
           [] s.derivation_type = "trimmed" -> a.include_trimmed
           [] s.derivation_type = "continued" -> a.include_continued
           [] OTHER -> TRUE
AgentPass(a, s) == ~(IsSome(a.filter_agent) /\ s.agent /= Unwrap(a.filter_agent))
MinLinesPass(a, s) == ~(IsSome(a.filter_min_lines) /\ s.lines < Unwrap(a.filter_min_lines))
\* date filters on the modified date (lines 689-703)
\* the date step with the bounds themselves left out of the range
DatePassExclusive(a, s) ==
    LET d == extract_date_for_comparison(s.modified)
    IN /\ ~(IsSome(a.filter_after_date) /\ IsSome(d) /\ Unwrap(d) <= Unwrap(a.filter_after_date))
       /\ ~(IsSome(a.filter_before_date) /\ IsSome(d) /\ Unwrap(d) >= Unwrap(a.filter_before_date))
DatePass(a, s) ==
    LET d == extract_date_for_comparison(s.modified)
    IN /\ ~(IsSome(a.filter_after_date) /\ IsSome(d) /\ Unwrap(d) < Unwrap(a.filter_after_date))
       /\ ~(IsSome(a.filter_before_date) /\ IsSome(d) /\ Unwrap(d) > Unwrap(a.filter_before_date))
\* the closure given to Iterator::filter
FilterPredicate(a, s) ==
    /\ HomePass(a, s) /\ ScopePass(a, s) /\ TypePass(a, s)
    /\ AgentPass(a, s) /\ MinLinesPass(a, s) /\ DatePass(a, s)

\* the position map of ranked_ids (a later duplicate overwrites an earlier)
RankPos(ranked_ids, id) ==
    LET at == {p \in 1..Len(ranked_ids) : ranked_ids[p] = id}
    IN CHOOSE p \in at : \A q \in at : q <= p

\* the indices that pass the predicate, in session order
PredicateFiltered(a) == SelectSeq([i \in SessionIdx |-> i], LAMBDA i : FilterPredicate(a, sessions[i]))
\* the comparator the other way round
ByModifiedAsc(i, j) == LexLess(sessions[i].modified, sessions[j].modified)
ByModifiedDesc(i, j) == LexLess(sessions[j].modified, sessions[i].modified)

\* the passing sessions the engine found, sorted (lines 716-747)
\* the sort with the sort mode left unread
SortMatchingByRank(a, matching, ranked_ids) ==
    StableSort(matching,
               [i, j \in SessionIdx |-> RankPos(ranked_ids, sessions[i].session_id)
                                        < RankPos(ranked_ids, sessions[j].session_id)])
\* the sort with the rank order left out
SortMatchingByTime(a, matching, ranked_ids) ==
    StableSort(matching, [i, j \in SessionIdx |-> ByModifiedDesc(i, j)])
SortMatching(a, matching, ranked_ids) ==
    IF a.sort_by_time THEN StableSort(matching, [i, j \in SessionIdx |-> ByModifiedDesc(i, j)])
    ELSE StableSort(matching,
                    [i, j \in SessionIdx |-> RankPos(ranked_ids, sessions[i].session_id)
                                             < RankPos(ranked_ids, sessions[j].session_id)])
\* the query branch and the empty-query branch (lines 711-760)
\* the branches chosen on the query as typed, without trim()
OrderedUntrimmed(a, passing, found) ==
    IF a.query /= <<>>
    THEN IF DOMAIN found.snippets /= {}
         THEN SortMatching(a, SelectSeq(passing, LAMBDA i : sessions[i].session_id
                                                             \in DOMAIN found.snippets),
                           found.ranked_ids)
         ELSE <<>>
    ELSE StableSort(passing, [i, j \in SessionIdx |-> ByModifiedDesc(i, j)])
Ordered(a, passing, found) ==
    IF ~IsBlank(a.query)
    THEN IF DOMAIN found.snippets /= {}
         THEN SortMatching(a, SelectSeq(passing, LAMBDA i : sessions[i].session_id
                                                             \in DOMAIN found.snippets),
                           found.ranked_ids)
         ELSE <<>>
    ELSE StableSort(passing, [i, j \in SessionIdx |-> ByModifiedDesc(i, j)])
\* the max_results cut (lines 762-765)
\* the cut left out
Unlimited(a, ordered) == ordered
Limited(a, ordered) ==
    IF IsSome(a.max_results) THEN Truncate(ordered, Unwrap(a.max_results)) ELSE ordered
\* the end of the filter with the selection and the scrolls left as they were
FilteredKeepingSelection(a, found) ==
    [a EXCEPT !.filtered = Limited(a, Ordered(a, PredicateFiltered(a), found)),
              !.search_snippets = IF ~IsBlank(a.query) THEN found.snippets ELSE <<>>]
Filtered(a, found) ==
    [a EXCEPT !.filtered = Limited(a, Ordered(a, PredicateFiltered(a), found)),
              !.search_snippets = IF ~IsBlank(a.query) THEN found.snippets ELSE <<>>,
              !.selected = 0,
              !.list_scroll = 0,
              !.preview_scroll = 0]

filter(a) ==
    Filtered(a, search_tantivy(a.index_path, a.query, a.filter_claude_home, a.filter_codex_home))

(***************************************************************************)
(* parse_jsonl_to_conversation: the transcript as the viewer's lines       *)
(***************************************************************************)
ErrorContent == << TextLine(<<"E", "r", "r">>) >>
UserPrefix == <<">", " ">>
AssistantPrefix == <<"*", " ">>
Indent == <<" ", " ">>
\* the lines of one message: the first prefixed, the rest indented
MessageLines(role, msg) ==
    [i \in 1..Len(msg) |->
        IF i = 1 THEN (IF role = "user" THEN UserPrefix ELSE AssistantPrefix) \o msg[i]
        ELSE Indent \o msg[i]]
\* the parser with a blank line before every message but the first
parse_jsonl_separating_all(content) ==
    LET step[i \in 0..Len(content)] ==
            IF i = 0 THEN [output |-> <<>>, last_role |-> None]
            ELSE LET acc == step[i - 1]
                     line == content[i]
                 IN IF IsBlank(line.raw) \/ ~line.json \/ line.role = ""
                       \/ (\A j \in 1..Len(line.msg) : IsBlank(line.msg[j]))
                    THEN acc
                    ELSE [output |->
                              (IF IsSome(acc.last_role) /\ acc.output /= <<>>
                               THEN Append(acc.output, <<>>) ELSE acc.output)
                              \o MessageLines(line.role, line.msg),
                          last_role |-> Some(line.role)]
    IN step[Len(content)].output
parse_jsonl_to_conversation(content) ==
    LET step[i \in 0..Len(content)] ==
            IF i = 0 THEN [output |-> <<>>, last_role |-> None]
            ELSE LET acc == step[i - 1]
                     line == content[i]
                 IN IF IsBlank(line.raw) \/ ~line.json \/ line.role = ""
                       \/ (\A j \in 1..Len(line.msg) : IsBlank(line.msg[j]))
                    THEN acc
                    ELSE [output |->
                              (IF IsSome(acc.last_role) /\ Unwrap(acc.last_role) /= line.role
                                  /\ acc.output /= <<>>
                               THEN Append(acc.output, <<>>) ELSE acc.output)
                              \o MessageLines(line.role, line.msg),
                          last_role |-> Some(line.role)]
    IN step[Len(content)].output

(***************************************************************************)
(* Key events.  A key is its KeyCode and whether CONTROL is held.          *)
(***************************************************************************)
Char(c) == [code |-> "Char", ch |-> c, ctrl |-> FALSE]
Ctrl(c) == [code |-> "Char", ch |-> c, ctrl |-> TRUE]
Named(n) == [code |-> n, ch |-> "", ctrl |-> FALSE]
\* the pattern KeyCode::Char(c): the modifiers are not looked at
IsChar(k, c) == k.code = "Char" /\ k.ch = c
\* the pattern KeyCode::Char(c) if key.modifiers.contains(KeyModifiers::CONTROL)
IsCtrl(k, c) == k.code = "Char" /\ k.ch = c /\ k.ctrl
IsCode(k, n) == k.code = n

(***************************************************************************)
(* The methods of App                                                      *)
(***************************************************************************)
selected_session(a) ==
    IF a.selected + 1 <= Len(a.filtered) THEN Some(sessions[a.filtered[a.selected + 1]]) ELSE None

\* on_char with the re-filter left out
on_char_unfiltered(a, c) == [a EXCEPT !.query = Append(a.query, c)]
on_char(a, c) == filter([a EXCEPT !.query = Append(a.query, c)])
\* on_backspace with the re-filter left out
on_backspace_unfiltered(a) == [a EXCEPT !.query = Pop(a.query)]
on_backspace(a) == filter([a EXCEPT !.query = Pop(a.query)])

has_active_filters(a) ==
    \/ a.query /= <<>>
    \/ IsSome(a.filter_min_lines)
    \/ IsSome(a.filter_after_date)
    \/ IsSome(a.filter_before_date)
    \/ IsSome(a.filter_agent)
    \/ ~a.include_original
    \/ a.include_sub
    \/ ~a.include_trimmed
    \/ ~a.include_continued

\* on_escape with a query counted among the filters that ask for confirmation
on_escape_query_confirms(a) ==
    IF has_active_filters(a) THEN [a EXCEPT !.confirming_exit = TRUE]
    ELSE [a EXCEPT !.should_quit = TRUE]
on_escape(a) ==
    IF a.query = <<>>
    THEN IF has_active_filters(a) THEN [a EXCEPT !.confirming_exit = TRUE]
         ELSE [a EXCEPT !.should_quit = TRUE]
    ELSE filter([a EXCEPT !.query = <<>>])

on_up(a) ==
    IF a.filtered /= <<>>
    THEN [a EXCEPT !.selected = SatSub(a.selected, 1), !.preview_scroll = 0] ELSE a
\* on_down with the bound at the last row left out
on_down_unbounded(a) ==
    IF a.filtered /= <<>>
    THEN [a EXCEPT !.selected = a.selected + 1, !.preview_scroll = 0] ELSE a
on_down(a) ==
    IF a.filtered /= <<>>
    THEN [a EXCEPT !.selected = Min(a.selected + 1, Len(a.filtered) - 1), !.preview_scroll = 0]
    ELSE a
page_up(a, lines) ==
    IF a.filtered /= <<>>
    THEN [a EXCEPT !.selected = SatSub(a.selected, lines), !.preview_scroll = 0] ELSE a
page_down(a, lines) ==
    IF a.filtered /= <<>>
    THEN [a EXCEPT !.selected = Min(a.selected + lines, Len(a.filtered) - 1), !.preview_scroll = 0]
    ELSE a

\* on_enter with the selection left unrecorded
on_enter_quit_only(a) ==
    IF IsSome(selected_session(a)) THEN [a EXCEPT !.should_quit = TRUE] ELSE a
on_enter(a) ==
    IF IsSome(selected_session(a))
    THEN [a EXCEPT !.should_select = selected_session(a), !.should_quit = TRUE]
    ELSE a

\* jump_to_row with a row out of range taken for the nearest row
jump_to_row_clamped(a, row) ==
    LET b == IF a.filtered /= <<>>
             THEN [a EXCEPT !.selected = Max(1, Min(row, Len(a.filtered))) - 1,
                            !.preview_scroll = 0]
             ELSE a
    IN [b EXCEPT !.jump_input = <<>>]
jump_to_row(a, row) ==
    LET b == IF row > 0 /\ row <= Len(a.filtered)
             THEN [a EXCEPT !.selected = row - 1, !.preview_scroll = 0] ELSE a
    IN [b EXCEPT !.jump_input = <<>>]

process_jump_enter(a) ==
    LET b == IF IsNumber(a.jump_input) THEN jump_to_row(a, NumVal(a.jump_input)) ELSE a
    IN [b EXCEPT !.jump_input = <<>>]

\* char::to_lowercase on the letters the model types
Lower(c) == IF c = "N" THEN "n" ELSE IF c = "Y" THEN "y" ELSE c
LowerStr(s) == [i \in 1..Len(s) |-> Lower(s[i])]

\* the 0-based numbers of the lines of full_content that contain the pattern
update_view_search_matches(a) ==
    LET pat == LowerStr(a.view_search_pattern)
        hits == SelectSeq([i \in 1..Len(a.full_content) |-> i],
                          LAMBDA i : Contains(LowerStr(a.full_content[i]), pat))
    IN [a EXCEPT !.view_search_current = 0,
                 !.view_search_matches =
                     IF a.view_search_pattern = <<>> THEN <<>>
                     ELSE [j \in 1..Len(hits) |-> hits[j] - 1]]

view_search_next(a) ==
    IF a.view_search_matches = <<>> THEN a
    ELSE LET cur == (a.view_search_current + 1) % Len(a.view_search_matches)
         IN [a EXCEPT !.view_search_current = cur,
                      !.full_content_scroll = a.view_search_matches[cur + 1]]

\* view_search_prev stopping at the first match
view_search_prev_stopping(a) ==
    IF a.view_search_matches = <<>> THEN a
    ELSE LET cur == SatSub(a.view_search_current, 1)
         IN [a EXCEPT !.view_search_current = cur,
                      !.full_content_scroll = a.view_search_matches[cur + 1]]
view_search_prev(a) ==
    IF a.view_search_matches = <<>> THEN a
    ELSE LET cur == IF a.view_search_current = 0 THEN Len(a.view_search_matches) - 1
                    ELSE a.view_search_current - 1
         IN [a EXCEPT !.view_search_current = cur,
                      !.full_content_scroll = a.view_search_matches[cur + 1]]

(***************************************************************************)
(* The key dispatch chain of main (lines 3283-3842), one operator per      *)
(* branch                                                                   *)
(***************************************************************************)
\* exit confirmation dialog (lines 3283-3294)
\* the dialog with Esc taken for a confirmation
handle_exit_confirm_esc_quits(a, k) ==
    IF IsCode(k, "Enter") \/ IsCode(k, "Esc") \/ IsChar(k, "y") \/ IsChar(k, "Y")
    THEN [a EXCEPT !.should_quit = TRUE]
    ELSE IF IsChar(k, "n") \/ IsChar(k, "N")
    THEN [a EXCEPT !.confirming_exit = FALSE]
    ELSE a
handle_exit_confirm(a, k) ==
    IF IsCode(k, "Enter") \/ IsChar(k, "y") \/ IsChar(k, "Y")
    THEN [a EXCEPT !.should_quit = TRUE]
    ELSE IF IsCode(k, "Esc") \/ IsChar(k, "n") \/ IsChar(k, "N")
    THEN [a EXCEPT !.confirming_exit = FALSE]
    ELSE a

\* the scroll keys shared by the two full-view branches, and Ctrl-C
full_view_scroll(a, k) ==
    IF IsCode(k, "Up") \/ IsChar(k, "k")
    THEN [a EXCEPT !.full_content_scroll = SatSub(a.full_content_scroll, 1)]
    ELSE IF IsCode(k, "Down") \/ IsChar(k, "j")
    THEN [a EXCEPT !.full_content_scroll = a.full_content_scroll + 1]
    ELSE IF IsCode(k, "PageUp")
    THEN [a EXCEPT !.full_content_scroll = SatSub(a.full_content_scroll, 20)]
    ELSE IF IsCode(k, "PageDown")
    THEN [a EXCEPT !.full_content_scroll = a.full_content_scroll + 20]
    ELSE IF IsCode(k, "Home")
    THEN [a EXCEPT !.full_content_scroll = 0]
    ELSE IF IsCode(k, "End")
    THEN [a EXCEPT !.full_content_scroll = SatSub(Len(a.full_content), 20)]
    ELSE IF IsCtrl(k, "c")
    THEN [a EXCEPT !.should_quit = TRUE]
    ELSE a

\* full view, entering a search pattern (lines 3298-3321)
\* handle_view_search_entry with the characters typed going to the query
handle_view_search_entry_to_query(a, k) ==
    IF IsCode(k, "Esc") THEN [a EXCEPT !.view_search_mode = FALSE]
    ELSE IF IsCode(k, "Enter")
    THEN LET b == update_view_search_matches([a EXCEPT !.view_search_mode = FALSE])
         IN IF b.view_search_matches /= <<>>
            THEN [b EXCEPT !.view_search_current = 0,
                           !.full_content_scroll = b.view_search_matches[1]]
            ELSE b
    ELSE IF IsCode(k, "Backspace")
    THEN [a EXCEPT !.view_search_pattern = Pop(a.view_search_pattern)]
    ELSE IF IsCode(k, "Char")
    THEN on_char(a, k.ch)
    ELSE a
handle_view_search_entry(a, k) ==
    IF IsCode(k, "Esc") THEN [a EXCEPT !.view_search_mode = FALSE]
    ELSE IF IsCode(k, "Enter")
    THEN LET b == update_view_search_matches([a EXCEPT !.view_search_mode = FALSE])
         IN IF b.view_search_matches /= <<>>
            THEN [b EXCEPT !.view_search_current = 0,
                           !.full_content_scroll = b.view_search_matches[1]]
            ELSE b
    ELSE IF IsCode(k, "Backspace")
    THEN [a EXCEPT !.view_search_pattern = Pop(a.view_search_pattern)]
    ELSE IF IsCode(k, "Char")
    THEN [a EXCEPT !.view_search_pattern = Append(a.view_search_pattern, k.ch)]
    ELSE a

\* full view with an active search pattern (lines 3322-3376)
handle_view_search_active(a, k) ==
    IF IsChar(k, "n") THEN view_search_next(a)
    ELSE IF IsChar(k, "N") THEN view_search_prev(a)
    ELSE IF IsCode(k, "Enter") THEN view_search_next(a)
    ELSE IF IsCode(k, "Esc")
    THEN [a EXCEPT !.view_search_pattern = <<>>, !.view_search_matches = <<>>,
                   !.view_search_current = 0]
    ELSE IF IsChar(k, "/")
    THEN [a EXCEPT !.view_search_pattern = <<>>, !.view_search_mode = TRUE]
    ELSE IF IsChar(k, " ") \/ IsChar(k, "q")
    THEN [a EXCEPT !.view_search_pattern = <<>>, !.view_search_matches = <<>>,
                   !.view_search_mode = FALSE, !.full_view_mode = FALSE]
    ELSE full_view_scroll(a, k)

\* full view, no active search (lines 3377-3411)
\* the branch with Esc left out of the keys that close the viewer
handle_full_view_plain_esc_unbound(a, k) ==
    IF IsChar(k, "/")
    THEN [a EXCEPT !.view_search_mode = TRUE, !.view_search_pattern = <<>>]
    ELSE IF IsChar(k, " ") \/ IsChar(k, "q")
    THEN [a EXCEPT !.full_view_mode = FALSE]
    ELSE full_view_scroll(a, k)
handle_full_view_plain(a, k) ==
    IF IsChar(k, "/")
    THEN [a EXCEPT !.view_search_mode = TRUE, !.view_search_pattern = <<>>]
    ELSE IF IsChar(k, " ") \/ IsCode(k, "Esc") \/ IsChar(k, "q")
    THEN [a EXCEPT !.full_view_mode = FALSE]
    ELSE full_view_scroll(a, k)

handle_full_view(a, k) ==
    IF a.view_search_mode THEN handle_view_search_entry(a, k)
    ELSE IF a.view_search_pattern /= <<>> THEN handle_view_search_active(a, k)
    ELSE handle_full_view_plain(a, k)

\* scope modal (lines 3412-3478)
\* scope_select with the modal left open behind the directory prompt
scope_select_modal_kept(a, item) ==
    IF item = 0
    THEN [filter([a EXCEPT !.scope_global = TRUE, !.filter_dir = None])
             EXCEPT !.scope_modal_open = FALSE]
    ELSE IF item = 1
    THEN [filter([a EXCEPT !.scope_global = FALSE, !.filter_dir = None])
             EXCEPT !.scope_modal_open = FALSE]
    ELSE IF item = 2
    THEN [a EXCEPT !.input_mode = Some("ScopeDir"),
                   !.input_buffer = IF IsSome(a.filter_dir) THEN Unwrap(a.filter_dir)
                                    ELSE launch_cwd]
    ELSE a
scope_select(a, item) ==
    IF item = 0
    THEN [filter([a EXCEPT !.scope_global = TRUE, !.filter_dir = None])
             EXCEPT !.scope_modal_open = FALSE]
    ELSE IF item = 1
    THEN [filter([a EXCEPT !.scope_global = FALSE, !.filter_dir = None])
             EXCEPT !.scope_modal_open = FALSE]
    ELSE IF item = 2
    THEN [a EXCEPT !.scope_modal_open = FALSE, !.input_mode = Some("ScopeDir"),
                   !.input_buffer = IF IsSome(a.filter_dir) THEN Unwrap(a.filter_dir)
                                    ELSE launch_cwd]
    ELSE a
handle_scope_modal(a, k) ==
    IF IsCode(k, "Esc") \/ IsChar(k, "/") THEN [a EXCEPT !.scope_modal_open = FALSE]
    ELSE IF IsCode(k, "Up") \/ IsChar(k, "k")
    THEN [a EXCEPT !.scope_modal_selected = SatSub(a.scope_modal_selected, 1)]
    ELSE IF IsCode(k, "Down") \/ IsChar(k, "j")
    THEN [a EXCEPT !.scope_modal_selected =
                       IF a.scope_modal_selected < 2 THEN a.scope_modal_selected + 1
                       ELSE a.scope_modal_selected]
    ELSE IF IsCode(k, "Enter") \/ IsChar(k, " ") THEN scope_select(a, a.scope_modal_selected)
    ELSE IF IsChar(k, "1") THEN scope_select(a, 0)
    ELSE IF IsChar(k, "2") THEN scope_select(a, 1)
    ELSE IF IsChar(k, "3") THEN scope_select(a, 2)
    ELSE a

\* FilterMenuItem::all with FilterMenuItem::shortcut (lines 401-447)
FilterMenuItems ==
    << [item |-> "ClearAll", shortcut |-> "x"],
       [item |-> "IncludeOriginal", shortcut |-> "o"],
       [item |-> "IncludeSub", shortcut |-> "s"],
       [item |-> "IncludeTrimmed", shortcut |-> "t"],
       [item |-> "IncludeContinued", shortcut |-> "c"],
       [item |-> "AgentAll", shortcut |-> "a"],
       [item |-> "AgentClaude", shortcut |-> "d"],
       [item |-> "AgentCodex", shortcut |-> "e"],
       [item |-> "MinLines", shortcut |-> "l"],
       [item |-> "AfterDate", shortcut |-> ">"],
       [item |-> "BeforeDate", shortcut |-> "<"] >>

\* the closure apply_filter (lines 3484-3540)
\* the closure with the inclusion items switching on instead of toggling
apply_filter_switch_on(a, item) ==
    CASE item = "ClearAll" ->
            filter([a EXCEPT !.include_original = TRUE, !.include_sub = FALSE,
                             !.include_trimmed = TRUE, !.include_continued = TRUE,
                             !.filter_agent = None, !.filter_min_lines = None])
      [] item = "IncludeOriginal" -> filter([a EXCEPT !.include_original = TRUE])
      [] item = "IncludeSub" -> filter([a EXCEPT !.include_sub = TRUE])
      [] item = "IncludeTrimmed" -> filter([a EXCEPT !.include_trimmed = TRUE])
      [] item = "IncludeContinued" -> filter([a EXCEPT !.include_continued = TRUE])
      [] item = "AgentAll" -> filter([a EXCEPT !.filter_agent = None])
      [] item = "AgentClaude" -> filter([a EXCEPT !.filter_agent = Some("claude")])
      [] item = "AgentCodex" -> filter([a EXCEPT !.filter_agent = Some("codex")])
      [] OTHER ->
            [a EXCEPT !.filter_modal_open = FALSE, !.input_mode = Some(item),
                      !.input_buffer = <<>>]
apply_filter(a, item) ==
    CASE item = "ClearAll" ->
            filter([a EXCEPT !.include_original = TRUE, !.include_sub = FALSE,
                             !.include_trimmed = TRUE, !.include_continued = TRUE,
                             !.filter_agent = None, !.filter_min_lines = None])
      [] item = "IncludeOriginal" -> filter([a EXCEPT !.include_original = ~a.include_original])
      [] item = "IncludeSub" -> filter([a EXCEPT !.include_sub = ~a.include_sub])
      [] item = "IncludeTrimmed" -> filter([a EXCEPT !.include_trimmed = ~a.include_trimmed])
      [] item = "IncludeContinued" -> filter([a EXCEPT !.include_continued = ~a.include_continued])
      [] item = "AgentAll" -> filter([a EXCEPT !.filter_agent = None])
      [] item = "AgentClaude" -> filter([a EXCEPT !.filter_agent = Some("claude")])
      [] item = "AgentCodex" -> filter([a EXCEPT !.filter_agent = Some("codex")])
      [] item = "MinLines" ->
            [a EXCEPT !.filter_modal_open = FALSE, !.input_mode = Some("MinLines"),
                      !.input_buffer = <<>>]
      [] item = "AfterDate" ->
            [a EXCEPT !.filter_modal_open = FALSE, !.input_mode = Some("AfterDate"),
                      !.input_buffer = <<>>]
      [] item = "BeforeDate" ->
            [a EXCEPT !.filter_modal_open = FALSE, !.input_mode = Some("BeforeDate"),
                      !.input_buffer = <<>>]

\* filter modal (lines 3479-3570)
handle_filter_modal(a, k) ==
    IF IsCode(k, "Esc") \/ IsCtrl(k, "f") THEN [a EXCEPT !.filter_modal_open = FALSE]
    ELSE IF IsCode(k, "Up") \/ IsChar(k, "k")
    THEN [a EXCEPT !.filter_modal_selected = SatSub(a.filter_modal_selected, 1)]
    ELSE IF IsCode(k, "Down") \/ IsChar(k, "j")
    THEN [a EXCEPT !.filter_modal_selected =
                       IF a.filter_modal_selected < Len(FilterMenuItems) - 1
                       THEN a.filter_modal_selected + 1 ELSE a.filter_modal_selected]
    ELSE IF IsCode(k, "Enter") \/ IsChar(k, " ")
    THEN apply_filter(a, FilterMenuItems[a.filter_modal_selected + 1].item)
    ELSE IF IsCode(k, "Char")
    THEN LET hit == {i \in 1..Len(FilterMenuItems) : FilterMenuItems[i].shortcut = k.ch}
         IN IF hit = {} THEN a ELSE apply_filter(a, FilterMenuItems[CHOOSE i \in hit : TRUE].item)
    ELSE a

\* what 'v' loads into the viewer (lines 3580-3588)
load_full_content(session) ==
    LET read == read_to_string(session.export_path)
        raw_content == IF IsSome(read) THEN Unwrap(read) ELSE ErrorContent
    IN IF EndsWith(session.export_path, JsonlExt)
       THEN parse_jsonl_to_conversation(raw_content)
       ELSE [i \in 1..Len(raw_content) |-> raw_content[i].raw]

\* action modal (lines 3571-3605)
handle_action_modal(a, k) ==
    IF IsCode(k, "Esc") THEN [a EXCEPT !.action_mode = None]
    ELSE IF IsChar(k, "v")
    THEN LET b == IF IsSome(selected_session(a))
                  THEN [a EXCEPT !.full_content = load_full_content(Unwrap(selected_session(a))),
                                 !.full_content_scroll = 0,
                                 !.full_view_mode = TRUE,
                                 !.view_search_mode = FALSE,
                                 !.view_search_pattern = <<>>,
                                 !.view_search_matches = <<>>,
                                 !.view_search_current = 0]
                  ELSE a
         IN [b EXCEPT !.action_mode = None]
    ELSE IF IsChar(k, "a") THEN [on_enter(a) EXCEPT !.action_mode = None]
    ELSE a

\* Enter in an input prompt, by kind (lines 3614-3669)
\* input_enter with a date that does not parse taken for no date
input_enter_clearing(a, mode) ==
    CASE mode = "MinLines" ->
            IF IsNumber(a.input_buffer)
            THEN filter([a EXCEPT !.filter_min_lines =
                                     IF NumVal(a.input_buffer) > 0
                                     THEN Some(NumVal(a.input_buffer)) ELSE None])
            ELSE a
      [] mode = "Agent" -> a
      [] mode = "JumpToLine" ->
            IF IsNumber(a.input_buffer) THEN jump_to_row(a, NumVal(a.input_buffer)) ELSE a
      [] mode = "AfterDate" ->
            filter(IF a.input_buffer = <<>>
                   THEN [a EXCEPT !.filter_after_date = None, !.filter_after_date_display = None]
                   ELSE IF IsSome(parse_flexible_date(a.input_buffer))
                   THEN [a EXCEPT !.filter_after_date = parse_flexible_date(a.input_buffer),
                                  !.filter_after_date_display = parse_flexible_date(a.input_buffer)]
                   ELSE [a EXCEPT !.filter_after_date = None, !.filter_after_date_display = None])
      [] mode = "BeforeDate" ->
            filter(IF a.input_buffer = <<>>
                   THEN [a EXCEPT !.filter_before_date = None, !.filter_before_date_display = None]
                   ELSE IF IsSome(parse_flexible_date(a.input_buffer))
                   THEN [a EXCEPT !.filter_before_date = parse_flexible_date(a.input_buffer),
                                  !.filter_before_date_display = parse_flexible_date(a.input_buffer)]
                   ELSE [a EXCEPT !.filter_before_date = None, !.filter_before_date_display = None])
      [] mode = "ScopeDir" ->
            filter(IF a.input_buffer = <<>>
                   THEN [a EXCEPT !.scope_global = TRUE, !.filter_dir = None]
                   ELSE LET path == IF Head(a.input_buffer) = "~"
                                    THEN HomeDir \o Tail(a.input_buffer)
                                    ELSE IF Head(a.input_buffer) = "/" THEN a.input_buffer
                                    ELSE launch_cwd \o <<"/">> \o a.input_buffer
                        IN [a EXCEPT !.filter_dir = Some(path), !.scope_global = FALSE])
input_enter(a, mode) ==
    CASE mode = "MinLines" ->
            IF IsNumber(a.input_buffer)
            THEN filter([a EXCEPT !.filter_min_lines =
                                     IF NumVal(a.input_buffer) > 0
                                     THEN Some(NumVal(a.input_buffer)) ELSE None])
            ELSE a
      [] mode = "Agent" -> a
      [] mode = "JumpToLine" ->
            IF IsNumber(a.input_buffer) THEN jump_to_row(a, NumVal(a.input_buffer)) ELSE a
      [] mode = "AfterDate" ->
            filter(IF a.input_buffer = <<>>
                   THEN [a EXCEPT !.filter_after_date = None, !.filter_after_date_display = None]
                   ELSE IF IsSome(parse_flexible_date(a.input_buffer))
                   THEN [a EXCEPT !.filter_after_date = parse_flexible_date(a.input_buffer),
                                  !.filter_after_date_display = parse_flexible_date(a.input_buffer)]
                   ELSE a)
      [] mode = "BeforeDate" ->
            filter(IF a.input_buffer = <<>>
                   THEN [a EXCEPT !.filter_before_date = None, !.filter_before_date_display = None]
                   ELSE IF IsSome(parse_flexible_date(a.input_buffer))
                   THEN [a EXCEPT !.filter_before_date = parse_flexible_date(a.input_buffer),
                                  !.filter_before_date_display = parse_flexible_date(a.input_buffer)]
                   ELSE a)
      [] mode = "ScopeDir" ->
            filter(IF a.input_buffer = <<>>
                   THEN [a EXCEPT !.scope_global = TRUE, !.filter_dir = None]
                   ELSE LET path == IF Head(a.input_buffer) = "~"
                                    THEN HomeDir \o Tail(a.input_buffer)
                                    ELSE IF Head(a.input_buffer) = "/" THEN a.input_buffer
                                    ELSE launch_cwd \o <<"/">> \o a.input_buffer
                        IN [a EXCEPT !.filter_dir = Some(path), !.scope_global = FALSE])

close_input(a) == [a EXCEPT !.input_mode = None, !.input_buffer = <<>>]

\* input prompt (lines 3606-3702)
handle_input_mode(a, k) ==
    LET mode == Unwrap(a.input_mode)
    IN IF IsCode(k, "Esc") THEN close_input(a)
       ELSE IF IsCode(k, "Enter") THEN close_input(input_enter(a, mode))
       ELSE IF IsChar(k, "1") /\ mode = "Agent"
       THEN close_input(filter([a EXCEPT !.filter_agent = Some("claude")]))
       ELSE IF IsChar(k, "2") /\ mode = "Agent"
       THEN close_input(filter([a EXCEPT !.filter_agent = Some("codex")]))
       ELSE IF IsChar(k, "0") /\ mode = "Agent"
       THEN close_input(filter([a EXCEPT !.filter_agent = None]))
       ELSE IF IsCode(k, "Char") /\ k.ch \in Digits /\ mode \in {"MinLines", "JumpToLine"}
       THEN [a EXCEPT !.input_buffer = Append(a.input_buffer, k.ch)]
       ELSE IF IsCode(k, "Char") /\ mode \in {"AfterDate", "BeforeDate", "ScopeDir"}
       THEN [a EXCEPT !.input_buffer = Append(a.input_buffer, k.ch)]
       ELSE IF IsCode(k, "Backspace")
               /\ mode \in {"MinLines", "JumpToLine", "AfterDate", "BeforeDate", "ScopeDir"}
       THEN [a EXCEPT !.input_buffer = Pop(a.input_buffer)]
       ELSE a

\* command mode, the key after ':' (lines 3703-3759)
handle_command_mode(a, k) ==
    LET b == [a EXCEPT !.command_mode = FALSE]
    IN IF IsChar(k, "x") \/ IsChar(k, "0")
       THEN filter([b EXCEPT !.include_original = TRUE, !.include_sub = FALSE,
                             !.include_trimmed = TRUE, !.include_continued = TRUE,
                             !.filter_agent = None, !.filter_min_lines = None,
                             !.filter_after_date = None, !.filter_after_date_display = None,
                             !.filter_before_date = None, !.filter_before_date_display = None])
       ELSE IF IsChar(k, "o") THEN filter([b EXCEPT !.include_original = ~b.include_original])
       ELSE IF IsChar(k, "s") THEN filter([b EXCEPT !.include_sub = ~b.include_sub])
       ELSE IF IsChar(k, "t") THEN filter([b EXCEPT !.include_trimmed = ~b.include_trimmed])
       ELSE IF IsChar(k, "c") THEN filter([b EXCEPT !.include_continued = ~b.include_continued])
       ELSE IF IsChar(k, "a") THEN [b EXCEPT !.input_mode = Some("Agent"), !.input_buffer = <<>>]
       ELSE IF IsChar(k, "m") THEN [b EXCEPT !.input_mode = Some("MinLines"), !.input_buffer = <<>>]
       ELSE IF IsChar(k, ">") THEN [b EXCEPT !.input_mode = Some("AfterDate"), !.input_buffer = <<>>]
       ELSE IF IsChar(k, "<") THEN [b EXCEPT !.input_mode = Some("BeforeDate"), !.input_buffer = <<>>]
       ELSE b

\* pending jump input (lines 3760-3776)
handle_jump_input(a, k) ==
    IF IsCode(k, "Enter") THEN process_jump_enter(a)
    ELSE IF IsCode(k, "Esc") THEN [a EXCEPT !.jump_input = <<>>]
    ELSE IF IsCode(k, "Char") /\ k.ch \in Digits
    THEN [a EXCEPT !.jump_input = Append(a.jump_input, k.ch)]
    ELSE IF IsCode(k, "Backspace") THEN [a EXCEPT !.jump_input = Pop(a.jump_input)]
    ELSE a

\* normal mode (lines 3777-3842)
handle_normal(a, k) ==
    IF IsCtrl(k, "c") THEN [a EXCEPT !.should_quit = TRUE]
    ELSE IF IsChar(k, ":") THEN [a EXCEPT !.command_mode = TRUE]
    ELSE IF IsChar(k, " ") THEN on_char(a, " ")
    ELSE IF IsCode(k, "Esc") THEN on_escape(a)
    ELSE IF IsCode(k, "Enter")
    THEN IF a.jump_input /= <<>> THEN process_jump_enter(a)
         ELSE IF IsSome(selected_session(a)) THEN [a EXCEPT !.action_mode = Some("ViewOrActions")]
         ELSE a
    ELSE IF IsCode(k, "Up") THEN on_up(a)
    ELSE IF IsCode(k, "Down") THEN on_down(a)
    ELSE IF IsCode(k, "PageUp") THEN page_up(a, 10)
    ELSE IF IsCode(k, "PageDown") THEN page_down(a, 10)
    ELSE IF IsCode(k, "Home") THEN [a EXCEPT !.selected = 0, !.preview_scroll = 0]
    ELSE IF IsCode(k, "End")
    THEN IF a.filtered /= <<>>
         THEN [a EXCEPT !.selected = Len(a.filtered) - 1, !.preview_scroll = 0] ELSE a
    ELSE IF IsCtrl(k, "u") THEN page_up(a, 10)
    ELSE IF IsCtrl(k, "d") THEN page_down(a, 10)
    ELSE IF IsCode(k, "Backspace") THEN on_backspace(a)
    ELSE IF IsChar(k, "/") THEN [a EXCEPT !.scope_modal_open = TRUE, !.scope_modal_selected = 0]
    ELSE IF IsCtrl(k, "f") THEN [a EXCEPT !.filter_modal_open = TRUE, !.filter_modal_selected = 0]
    ELSE IF IsCtrl(k, "g") THEN [a EXCEPT !.input_mode = Some("JumpToLine"), !.input_buffer = <<>>]
    ELSE IF IsCtrl(k, "s") THEN filter([a EXCEPT !.sort_by_time = ~a.sort_by_time])
    ELSE IF IsCode(k, "Char") THEN on_char(a, k.ch)
    ELSE a

\* which branch of the chain takes the next key
Mode(a) ==
    IF a.confirming_exit THEN "exit-confirm"
    ELSE IF a.full_view_mode
    THEN (IF a.view_search_mode THEN "view-search-entry"
          ELSE IF a.view_search_pattern /= <<>> THEN "view-search-active" ELSE "full-view")
    ELSE IF a.scope_modal_open THEN "scope-modal"
    ELSE IF a.filter_modal_open THEN "filter-modal"
    ELSE IF IsSome(a.action_mode) THEN "action-modal"
    ELSE IF IsSome(a.input_mode) THEN "input-prompt"
    ELSE IF a.command_mode THEN "command"
    ELSE IF a.jump_input /= <<>> THEN "jump-input"
    ELSE "normal"

\* one pressed key through the chain
on_key(a, k) ==
    IF a.confirming_exit THEN handle_exit_confirm(a, k)
    ELSE IF a.full_view_mode THEN handle_full_view(a, k)
    ELSE IF a.scope_modal_open THEN handle_scope_modal(a, k)
    ELSE IF a.filter_modal_open THEN handle_filter_modal(a, k)
    ELSE IF IsSome(a.action_mode) THEN handle_action_modal(a, k)
    ELSE IF IsSome(a.input_mode) THEN handle_input_mode(a, k)
    ELSE IF a.command_mode THEN handle_command_mode(a, k)
    ELSE IF a.jump_input /= <<>> THEN handle_jump_input(a, k)
    ELSE handle_normal(a, k)

(***************************************************************************)
(* render: the writes the renderer makes to the scroll offsets             *)
(***************************************************************************)
has_annotations(a) ==
    \E i \in 1..Len(a.filtered) :
        sessions[a.filtered[i]].derivation_type /= "" \/ sessions[a.filtered[i]].is_sidechain

\* the height of the content row of render's layout: the frame less the
\* search bar (3), two spacers and the status bar (2, or 3 with a legend)
ContentHeight(a, height) ==
    LET has_filters == \/ ~a.include_original \/ a.include_sub \/ ~a.include_trimmed
                       \/ ~a.include_continued \/ IsSome(a.filter_agent)
                       \/ IsSome(a.filter_min_lines) \/ IsSome(a.filter_after_date)
                       \/ IsSome(a.filter_before_date)
        status_height == IF has_annotations(a) \/ has_filters THEN 3 ELSE 2
    IN SatSub(height, 3 + 1 + 1 + status_height)

\* render_session_list: keep the selected row in the window (lines 1563-1571)
VisibleItems(area_height) == area_height \div 3
\* render_session_list scrolling down one row short
render_session_list_short(a, area_height) ==
    IF a.filtered = <<>> THEN a
    ELSE IF a.selected < a.list_scroll THEN [a EXCEPT !.list_scroll = a.selected]
    ELSE IF a.selected >= a.list_scroll + VisibleItems(area_height)
            /\ VisibleItems(area_height) > 0
    THEN [a EXCEPT !.list_scroll = a.selected - VisibleItems(area_height)]
    ELSE a
render_session_list(a, area_height) ==
    IF a.filtered = <<>> THEN a
    ELSE IF a.selected < a.list_scroll THEN [a EXCEPT !.list_scroll = a.selected]
    ELSE IF a.selected >= a.list_scroll + VisibleItems(area_height)
            /\ VisibleItems(area_height) > 0
    THEN [a EXCEPT !.list_scroll = a.selected - VisibleItems(area_height) + 1]
    ELSE a

\* render_preview: clamp preview_scroll (lines 1580-1582, 1678-1681)
PreviewMaxScroll(a, area_height) ==
    LET n == Unwrap(selected_session(a)).preview_lines
    IN SatSub(n, Min(area_height, n))
render_preview(a, area_height) ==
    IF ~IsSome(selected_session(a)) THEN a
    ELSE [a EXCEPT !.preview_scroll = Min(a.preview_scroll, PreviewMaxScroll(a, area_height))]

\* render_full_conversation: clamp full_content_scroll (lines 2007-2011)
FullMaxScroll(a) == SatSub(Len(a.full_content), 1)
\* the height of the viewer's content row: the frame less the header (2)
\* and the footer (1) (lines 1853-1861)
FullVisible(height) == SatSub(height, 3)
\* render_full_conversation clamping to the number of lines
render_full_clamped_to_len(a) ==
    IF a.full_content_scroll > Len(a.full_content)
    THEN [a EXCEPT !.full_content_scroll = Len(a.full_content)] ELSE a
\* render_full_conversation with the clamp left out
render_full_unclamped(a) == a
render_full_conversation(a) ==
    IF a.full_content_scroll > FullMaxScroll(a)
    THEN [a EXCEPT !.full_content_scroll = FullMaxScroll(a)] ELSE a

render(a, height) ==
    IF a.full_view_mode THEN render_full_conversation(a)
    ELSE render_preview(render_session_list(a, ContentHeight(a, height)), ContentHeight(a, height))

(***************************************************************************)
(* Construction: CliOptions and App::new_with_options                      *)
(***************************************************************************)
\* the test with --sub-agent left out
any_type_flag_but_sub(cli) ==
    cli.include_original \/ cli.include_trimmed \/ cli.include_continued
any_type_flag_specified(cli) ==
    cli.include_original \/ cli.include_sub \/ cli.include_trimmed \/ cli.include_continued

\* the options of a launch with no arguments
DefaultCli ==
    [output_file |-> None, claude_home |-> Some(DefaultClaudeHome),
     codex_home |-> Some(DefaultCodexHome), global_search |-> FALSE, filter_dir |-> None,
     num_results |-> None, include_original |-> FALSE, include_sub |-> FALSE,
     include_trimmed |-> FALSE, include_continued |-> FALSE, min_lines |-> None,
     after_date |-> None, before_date |-> None, agent_filter |-> None, query |-> None,
     json_output |-> FALSE]

\* the flags parse_cli_args looks for, each as the argument it is given as
FlagNames ==
    {"--claude-home", "--codex-home", "--global", "-g", "--dir", "--num-results", "-n",
     "--original", "--sub-agent", "--trimmed", "--continued", "--min-lines", "--after",
     "--before", "--agent", "--query", "--json"}
Flag ==
    [f \in FlagNames |->
        CASE f = "--claude-home" -> <<"-", "-", "c", "l", "a", "u", "d", "e", "-", "h", "o", "m", "e">>
          [] f = "--codex-home" -> <<"-", "-", "c", "o", "d", "e", "x", "-", "h", "o", "m", "e">>
          [] f = "--global" -> <<"-", "-", "g", "l", "o", "b", "a", "l">>
          [] f = "-g" -> <<"-", "g">>
          [] f = "--dir" -> <<"-", "-", "d", "i", "r">>
          [] f = "--num-results" -> <<"-", "-", "n", "u", "m", "-", "r", "e", "s", "u", "l", "t", "s">>
          [] f = "-n" -> <<"-", "n">>
          [] f = "--original" -> <<"-", "-", "o", "r", "i", "g", "i", "n", "a", "l">>
          [] f = "--sub-agent" -> <<"-", "-", "s", "u", "b", "-", "a", "g", "e", "n", "t">>
          [] f = "--trimmed" -> <<"-", "-", "t", "r", "i", "m", "m", "e", "d">>
          [] f = "--continued" -> <<"-", "-", "c", "o", "n", "t", "i", "n", "u", "e", "d">>
          [] f = "--min-lines" -> <<"-", "-", "m", "i", "n", "-", "l", "i", "n", "e", "s">>
          [] f = "--after" -> <<"-", "-", "a", "f", "t", "e", "r">>
          [] f = "--before" -> <<"-", "-", "b", "e", "f", "o", "r", "e">>
          [] f = "--agent" -> <<"-", "-", "a", "g", "e", "n", "t">>
          [] f = "--query" -> <<"-", "-", "q", "u", "e", "r", "y">>
          [] f = "--json" -> <<"-", "-", "j", "s", "o", "n">>]
\* get_arg_value: the argument after the first occurrence of the flag
\* (lines 3115-3121)
get_arg_value(args, flag) ==
    LET at == {i \in 1..Len(args) : args[i] = flag}
    IN IF at = {} THEN None
       ELSE LET i == CHOOSE j \in at : \A q \in at : j <= q
            IN IF i + 1 <= Len(args) THEN Some(args[i + 1]) ELSE None
\* has_flag (lines 3123-3126)
has_flag(args, flag) == \E i \in 1..Len(args) : args[i] = flag
\* .and_then(|s| s.parse().ok()) on a flag's value; the values of the model
\* carry no sign
ParseNumber(o) == IF IsSome(o) /\ IsNumber(Unwrap(o)) THEN Some(NumVal(Unwrap(o))) ELSE None
\* the test of the output-file filter on one argument (line 3132)
IsPathArg(a) ==
    /\ ~StartsWith(a, <<"-">>)
    /\ (Contains(a, <<"/">>) \/ EndsWith(a, <<".", "j", "s", "o", "n">>))
\* output_file: the last argument after the binary's name that passes the
\* filter (lines 3128-3134)
output_file_of(args) ==
    LET at == {i \in 2..Len(args) : IsPathArg(args[i])}
    IN IF at = {} THEN None ELSE Some(args[CHOOSE j \in at : \A q \in at : q <= j])
\* the value of --dir made absolute (lines 3151-3165)
expand_dir(dir) ==
    IF StartsWith(dir, <<"~">>) THEN HomeDir \o Tail(dir)
    ELSE IF StartsWith(dir, <<"/">>) THEN dir
    ELSE launch_cwd \o <<"/">> \o dir
\* parse_cli_args, with CLAUDE_CONFIG_DIR and CODEX_HOME unset
\* (lines 3112-3209)
parse_cli_args(args) ==
    [output_file |-> output_file_of(args),
     claude_home |-> IF IsSome(get_arg_value(args, Flag["--claude-home"]))
                     THEN get_arg_value(args, Flag["--claude-home"])
                     ELSE Some(DefaultClaudeHome),
     codex_home |-> IF IsSome(get_arg_value(args, Flag["--codex-home"]))
                    THEN get_arg_value(args, Flag["--codex-home"])
                    ELSE Some(DefaultCodexHome),
     global_search |-> has_flag(args, Flag["--global"]) \/ has_flag(args, Flag["-g"]),
     filter_dir |-> IF IsSome(get_arg_value(args, Flag["--dir"]))
                    THEN Some(expand_dir(Unwrap(get_arg_value(args, Flag["--dir"]))))
                    ELSE None,
     num_results |-> ParseNumber(IF IsSome(get_arg_value(args, Flag["--num-results"]))
                                 THEN get_arg_value(args, Flag["--num-results"])
                                 ELSE get_arg_value(args, Flag["-n"])),
     include_original |-> has_flag(args, Flag["--original"]),
     include_sub |-> has_flag(args, Flag["--sub-agent"]),
     include_trimmed |-> has_flag(args, Flag["--trimmed"]),
     include_continued |-> has_flag(args, Flag["--continued"]),
     min_lines |-> ParseNumber(get_arg_value(args, Flag["--min-lines"])),
     after_date |-> get_arg_value(args, Flag["--after"]),
     before_date |-> get_arg_value(args, Flag["--before"]),
     agent_filter |-> get_arg_value(args, Flag["--agent"]),
     query |-> get_arg_value(args, Flag["--query"]),
     json_output |-> has_flag(args, Flag["--json"])]

OptParseDate(o) == IF IsSome(o) THEN parse_flexible_date(Unwrap(o)) ELSE None

new_with_options(index_path, cli) ==
    filter([index_path |-> index_path,
            filtered |-> <<>>,
            query |-> IF IsSome(cli.query) THEN Unwrap(cli.query) ELSE <<>>,
            selected |-> 0,
            list_scroll |-> 0,
            preview_scroll |-> 0,
            should_quit |-> FALSE,
            should_select |-> None,
            scope_global |-> IF IsSome(cli.filter_dir) THEN FALSE ELSE cli.global_search,
            search_snippets |-> <<>>,
            include_original |-> IF any_type_flag_specified(cli) THEN cli.include_original ELSE TRUE,
            include_sub |-> cli.include_sub,
            include_trimmed |-> IF any_type_flag_specified(cli) THEN cli.include_trimmed ELSE TRUE,
            include_continued |-> IF any_type_flag_specified(cli) THEN cli.include_continued ELSE TRUE,
            filter_agent |-> cli.agent_filter,
            filter_min_lines |-> cli.min_lines,
            filter_after_date |-> OptParseDate(cli.after_date),
            filter_after_date_display |-> OptParseDate(cli.after_date),
            filter_before_date |-> OptParseDate(cli.before_date),
            filter_before_date_display |-> OptParseDate(cli.before_date),
            filter_claude_home |-> cli.claude_home,
            filter_codex_home |-> cli.codex_home,
            command_mode |-> FALSE,
            full_view_mode |-> FALSE,
            full_content |-> <<>>,
            full_content_scroll |-> 0,
            view_search_mode |-> FALSE,
            view_search_pattern |-> <<>>,
            view_search_matches |-> <<>>,
            view_search_current |-> 0,
            jump_input |-> <<>>,
            input_mode |-> None,
            input_buffer |-> <<>>,
            action_mode |-> None,
            filter_modal_open |-> FALSE,
            filter_modal_selected |-> 0,
            scope_modal_open |-> FALSE,
            scope_modal_selected |-> 0,
            filter_dir |-> cli.filter_dir,
            max_results |-> cli.num_results,
            sort_by_time |-> FALSE,
            confirming_exit |-> FALSE])

(***************************************************************************)
(* The state machine: main's loop                                          *)
(*   draw, check should_quit -> drain the pending key events -> draw ...   *)
(* and, after the loop, the teardown and the handoff write.                *)
(***************************************************************************)
VARIABLES
    app,          \* the App
    phase,        \* where main is: "draw", "poll", "teardown", "exited", "failed",
                  \* "unavailable"
    height,       \* the terminal's height in rows (frame.area())
    output_file,  \* cli.output_file
    handoff,      \* the handoffs written so far, each [to, session_id, json]
    confirmed,    \* history: 'a' was pressed in the action modal
    index_dirs,   \* the directories that held an index when main started
    args          \* std::env::args(), the binary's name first; NotParsed in the
                  \* specifications that start from the parsed options
                  \* (files, the transcript files, is declared with read_to_string)

NotParsed == <<>>

vars == <<app, phase, height, output_file, handoff, confirmed, index_dirs, files, args>>

\* the terminal heights of the model: no list row fits, two fit
Heights == {8, 14}
OutputFiles == {None, Some(<<"o", ".", "j", "s", "o", "n">>)}

\* the model's bounds on what a key may grow
Bounded(a, b) ==
    /\ Len(b.query) > Len(a.query) => Len(b.query) <= MaxQuery
    /\ (b.input_mode = a.input_mode /\ Len(b.input_buffer) > Len(a.input_buffer))
          => Len(b.input_buffer) <= MaxBuf
    /\ Len(b.view_search_pattern) > Len(a.view_search_pattern)
          => Len(b.view_search_pattern) <= MaxBuf
    /\ b.full_content_scroll > a.full_content_scroll
          => b.full_content_scroll <= Max(MaxScroll, FullMaxScroll(b))

InitWith(clis) ==
    /\ \E cli \in clis : app = new_with_options(SearchIndex, cli)
    /\ phase = "draw"
    /\ height \in Heights
    /\ output_file \in OutputFiles
    /\ handoff = <<>>
    /\ confirmed = FALSE
    /\ index_dirs = {SearchIndex}
    /\ files = TranscriptFiles
    /\ args = NotParsed

Init == InitWith({DefaultCli})

\* terminal.draw(|f| render(f, &mut app)); if app.should_quit { break }
\* (lines 3273-3277)
Draw ==
    /\ phase = "draw"
    /\ app' = render(app, height)
    /\ phase' = IF app.should_quit THEN "teardown" ELSE "poll"
    /\ UNCHANGED <<height, output_file, handoff, confirmed, index_dirs, files, args>>

\* one pending key press read by the drain loop: the branch of the dispatch
\* chain for the mode takes it, and leaves the App as b
Key(mode, k, b) ==
    /\ phase = "poll"
    /\ Mode(app) = mode
    /\ Bounded(app, b)
    /\ app' = b
    /\ confirmed' = (confirmed \/ (mode = "action-modal" /\ IsChar(k, "a")))
    /\ UNCHANGED <<phase, height, output_file, handoff, index_dirs, files, args>>

KeyExitConfirm(keys) == \E k \in keys : Key("exit-confirm", k, handle_exit_confirm(app, k))
KeyFullView(keys) == \E k \in keys : Key("full-view", k, handle_full_view_plain(app, k))
KeyViewSearchEntry(keys) ==
    \E k \in keys : Key("view-search-entry", k, handle_view_search_entry(app, k))
KeyViewSearchActive(keys) ==
    \E k \in keys : Key("view-search-active", k, handle_view_search_active(app, k))
KeyScopeModal(keys) == \E k \in keys : Key("scope-modal", k, handle_scope_modal(app, k))
KeyFilterModal(keys) == \E k \in keys : Key("filter-modal", k, handle_filter_modal(app, k))
KeyActionModal(keys) == \E k \in keys : Key("action-modal", k, handle_action_modal(app, k))
KeyInputPrompt(keys) == \E k \in keys : Key("input-prompt", k, handle_input_mode(app, k))
KeyCommand(keys) == \E k \in keys : Key("command", k, handle_command_mode(app, k))
KeyNormal(keys) == \E k \in keys : Key("normal", k, handle_normal(app, k))

\* a resize event: read by the drain loop and dropped, seen by the next draw
Resize ==
    /\ phase = "poll"
    /\ height' \in Heights \ {height}
    /\ UNCHANGED <<app, phase, output_file, handoff, confirmed, index_dirs, files, args>>

\* event::poll returns false: sleep, then draw again (lines 3279, 3847)
Sleep ==
    /\ phase = "poll"
    /\ phase' = "draw"
    /\ UNCHANGED <<app, height, output_file, handoff, confirmed, index_dirs, files, args>>

(***************************************************************************)
(* The JSON written for sessions: the handoff and the rows of --json.  A   *)
(* JSON object is a function from its field names to their values.         *)
(***************************************************************************)
\* the fields of struct Session, in the order of the declaration
SessionFields ==
    <<"session_id", "agent", "project", "branch", "cwd", "created", "modified", "lines",
      "export_path", "first_msg_role", "first_msg_content", "last_msg_role",
      "last_msg_content", "derivation_type", "is_sidechain", "claude_home">>
\* the name #[derive(Serialize)] writes a field under: its own, but for the
\* one #[serde(rename = ...)]
SerdeName(f) == IF f = "export_path" THEN "file_path" ELSE f
\* the value of a field of a session; the text fields the documents of the
\* model do not carry are empty
FieldValue(session, f) == IF f \in DOMAIN session THEN session[f] ELSE <<>>
\* to_string with the fields of a row of --json
to_string_as_row(session) ==
    [k \in {"session_id", "agent", "project", "branch", "cwd", "lines", "created",
            "modified", "first_msg", "last_msg", "file_path", "derivation_type",
            "is_sidechain", "snippet"} |->
        CASE k = "first_msg" -> FieldValue(session, "first_msg_content")
          [] k = "last_msg" -> FieldValue(session, "last_msg_content")
          [] k = "file_path" -> FieldValue(session, "export_path")
          [] k = "snippet" -> None
          [] OTHER -> FieldValue(session, k)]
\* serde_json::to_string(&session) (line 3854)
to_string(session) ==
    [k \in {SerdeName(SessionFields[i]) : i \in 1..Len(SessionFields)} |->
        FieldValue(session, CHOOSE f \in Range(SessionFields) : SerdeName(f) = k)]
\* strip_html_tags: the snippet without its highlight tags
strip_html_tags(text) == SelectSeq(text, LAMBDA c : c \notin {"<b>", "</b>"})
\* output_json: the objects printed for the first `limit` rows of filtered,
\* one per line
output_json(a, limit) ==
    LET n == IF IsSome(limit) THEN Min(Unwrap(limit), Len(a.filtered)) ELSE Len(a.filtered)
    IN [r \in 1..n |->
           LET s == sessions[a.filtered[r]]
           IN [session_id |-> s.session_id,
               agent |-> s.agent,
               project |-> FieldValue(s, "project"),
               branch |-> FieldValue(s, "branch"),
               cwd |-> s.cwd,
               lines |-> s.lines,
               created |-> FieldValue(s, "created"),
               modified |-> s.modified,
               first_msg |-> FieldValue(s, "first_msg_content"),
               last_msg |-> FieldValue(s, "last_msg_content"),
               file_path |-> s.export_path,
               derivation_type |-> s.derivation_type,
               is_sidechain |-> s.is_sidechain,
               snippet |-> IF s.session_id \in DOMAIN a.search_snippets
                           THEN Some(strip_html_tags(a.search_snippets[s.session_id]))
                           ELSE None]]

\* after the loop: restore the terminal, write the handoff (lines 3850-3862)
Exit ==
    /\ phase = "teardown"
    /\ phase' = "exited"
    /\ handoff' = IF IsSome(app.should_select)
                   THEN Append(handoff, [to |-> IF IsSome(output_file) THEN "file" ELSE "stdout",
                                         session_id |-> Unwrap(app.should_select).session_id,
                                         json |-> to_string(Unwrap(app.should_select))])
                   ELSE handoff
    /\ UNCHANGED <<app, height, output_file, confirmed, index_dirs, files, args>>

Loop == Draw \/ Sleep \/ Resize \/ Exit

(***************************************************************************)
(* Spec: browsing.  The list, the query, the command keys, the prompts     *)
(* and the exit confirmation.                                              *)
(***************************************************************************)
NormalKeys ==
    {Named("Esc"), Named("Up"), Named("Down"), Named("PageDown"), Named("Home"),
     Named("End"), Named("Backspace"), Ctrl("c"), Ctrl("g"), Ctrl("s"),
     Char(":"), Char("a"), Char("v")}
CommandKeys == {Named("Esc"), Ctrl("c"), Char("s"), Char("a"), Char("x")}
PromptKeys == {Named("Esc"), Named("Enter"), Named("Backspace"), Ctrl("c"),
               Char("0"), Char("1"), Char("2")}
ConfirmKeys == {Named("Esc"), Named("Enter"), Ctrl("c"), Char("a")}

Next ==
    \/ Loop
    \/ KeyNormal(NormalKeys)
    \/ KeyCommand(CommandKeys)
    \/ KeyInputPrompt(PromptKeys)
    \/ KeyExitConfirm(ConfirmKeys)

Spec == Init /\ [][Next]_vars

(***************************************************************************)
(* SpecView: the action modal, the full-screen viewer and its search, the  *)
(* handoff.                                                                *)
(***************************************************************************)
ListKeys == {Named("Esc"), Named("Enter"), Named("Down"), Ctrl("c")}
ActionKeys == {Named("Esc"), Named("Enter"), Ctrl("c"), Char("v"), Char("a")}
ViewKeys ==
    {Named("Esc"), Named("Up"), Named("Down"), Named("PageDown"), Named("Home"),
     Named("End"), Ctrl("c"), Char("/"), Char("j")}
ViewSearchKeys == {Named("Esc"), Named("Enter"), Named("Backspace"), Ctrl("c"), Char("v")}
ViewMatchKeys == {Named("Esc"), Named("Down"), Ctrl("c"), Char("n"), Char("N"), Char("/")}

NextView ==
    \/ Loop
    \/ KeyNormal(ListKeys)
    \/ KeyActionModal(ActionKeys)
    \/ KeyFullView(ViewKeys)
    \/ KeyViewSearchEntry(ViewSearchKeys)
    \/ KeyViewSearchActive(ViewMatchKeys)

SpecView == Init /\ [][NextView]_vars

(***************************************************************************)
(* SpecFilter: the filter/sort pipeline under the command-line options,    *)
(* the query keys, the sort toggle and the type toggles.                   *)
(***************************************************************************)
\* --num-results
NumResults == {None, Some(0), Some(2)}
\* --sub-agent, --original: <<include_sub, include_original>>
TypeFlags == {<<FALSE, FALSE>>, <<TRUE, FALSE>>, <<TRUE, TRUE>>}
\* --agent
AgentFilters == {None, Some("codex")}
\* --min-lines
MinLines == {None, Some(5)}
\* --after
AfterDates == {None, Some(<<"1", "/", "9">>)}
\* -g and --dir: <<global_search, filter_dir>>
Scopes == {<<FALSE, None>>, <<TRUE, None>>, <<TRUE, Some(<<"/", "p">>)>>}
\* --query
Queries == {None, Some(<<"a", " ", "v">>), Some(<<" ">>)}

FilterClis ==
    {[DefaultCli EXCEPT !.num_results = n, !.include_sub = t[1], !.include_original = t[2],
                        !.agent_filter = ag, !.min_lines = ml, !.after_date = ad,
                        !.global_search = sc[1], !.filter_dir = sc[2], !.query = q] :
        n \in NumResults, t \in TypeFlags, ag \in AgentFilters, ml \in MinLines,
        ad \in AfterDates, sc \in Scopes, q \in Queries}

InitFilter ==
    /\ \E cli \in FilterClis : app = new_with_options(SearchIndex, cli)
    /\ phase = "draw"
    /\ height = 14
    /\ output_file = None
    /\ handoff = <<>>
    /\ confirmed = FALSE
    /\ index_dirs = {SearchIndex}
    /\ files = TranscriptFiles
    /\ args = NotParsed

QueryKeys == {Named("Backspace"), Ctrl("c"), Ctrl("s"), Char(":"), Char("a"), Char(" ")}
ToggleKeys == {Char("s"), Char("t")}

NextFilter ==
    \/ Draw \/ Sleep \/ Exit
    \/ KeyNormal(QueryKeys)
    \/ KeyCommand(ToggleKeys)

SpecFilter == InitFilter /\ [][NextFilter]_vars

(***************************************************************************)
(* SpecOverlay: the overlays of normal mode (scope modal, filter modal,    *)
(* action modal, command mode, the input prompts, the exit confirmation),  *)
(* on one terminal size.                                                   *)
(***************************************************************************)
\* launches: no arguments; -g --sub-agent --original
OverlayClis ==
    {DefaultCli,
     [DefaultCli EXCEPT !.global_search = TRUE, !.include_sub = TRUE, !.include_original = TRUE]}

InitOverlay ==
    /\ \E cli \in OverlayClis : app = new_with_options(SearchIndex, cli)
    /\ phase = "draw"
    /\ height = 14
    /\ output_file = None
    /\ handoff = <<>>
    /\ confirmed = FALSE
    /\ index_dirs = {SearchIndex}
    /\ files = TranscriptFiles
    /\ args = NotParsed

OpenerKeys ==
    {Named("Esc"), Named("Enter"), Named("Down"), Ctrl("f"), Ctrl("g"),
     Char("/"), Char(":"), Char("a")}
ScopeKeys == {Named("Esc"), Named("Enter"), Char("3")}
MenuKeys == {Named("Esc"), Named("Enter"), Ctrl("f"), Char("s")}
ChoiceKeys == {Named("Esc"), Char("a")}
ColonKeys == {Named("Esc"), Char("t"), Char("m"), Char(">")}
EntryKeys == {Named("Esc"), Named("Enter"), Char("2")}
ResumeKeys == {Named("Esc"), Named("Enter"), Char("n")}

NextOverlay ==
    \/ Draw \/ Sleep \/ Exit
    \/ KeyNormal(OpenerKeys)
    \/ KeyScopeModal(ScopeKeys)
    \/ KeyFilterModal(MenuKeys)
    \/ KeyActionModal(ChoiceKeys)
    \/ KeyCommand(ColonKeys)
    \/ KeyInputPrompt(EntryKeys)
    \/ KeyExitConfirm(ResumeKeys)

SpecOverlay == InitOverlay /\ [][NextOverlay]_vars

(***************************************************************************)
(* SpecCli: the session-type flags and the date options of the command     *)
(* line, and the date prompts of command mode.                             *)
(***************************************************************************)
\* --after and --before
CliAfterDates == {None, Some(<<"1", "/", "9">>), Some(<<"1", "/", "1", "0">>)}
CliBeforeDates == {None, Some(<<"1", "/", "9">>), Some(<<"1", "/", "5">>)}
\* every launch with --original, --sub-agent, --trimmed, --continued, -g,
\* --after and --before given or not
CliClis ==
    {[DefaultCli EXCEPT !.include_original = o, !.include_sub = sb, !.include_trimmed = t,
                        !.include_continued = c, !.global_search = g,
                        !.after_date = ad, !.before_date = bd] :
        o \in BOOLEAN, sb \in BOOLEAN, t \in BOOLEAN, c \in BOOLEAN, g \in BOOLEAN,
        ad \in CliAfterDates, bd \in CliBeforeDates}

InitCli ==
    /\ \E cli \in CliClis : app = new_with_options(SearchIndex, cli)
    /\ phase = "draw"
    /\ height = 14
    /\ output_file = None
    /\ handoff = <<>>
    /\ confirmed = FALSE
    /\ index_dirs = {SearchIndex}
    /\ files = TranscriptFiles
    /\ args = NotParsed

LaunchKeys == {Char(":"), Ctrl("c")}
DateCommandKeys == {Named("Esc"), Char(">"), Char("<")}
DateEntryKeys == {Named("Esc"), Named("Enter"), Char("1"), Char("/")}

NextCli ==
    \/ Draw \/ Sleep \/ Exit
    \/ KeyNormal(LaunchKeys)
    \/ KeyCommand(DateCommandKeys)
    \/ KeyInputPrompt(DateEntryKeys)

SpecCli == InitCli /\ [][NextCli]_vars

(***************************************************************************)
(* SpecRead: the viewer opened on sessions whose transcript file is there  *)
(* and on sessions whose file cannot be read.                              *)
(***************************************************************************)
ReadClis ==
    {DefaultCli,
     [DefaultCli EXCEPT !.global_search = TRUE, !.include_sub = TRUE],
     [DefaultCli EXCEPT !.global_search = TRUE, !.claude_home = Some(OtherHome)]}

InitRead ==
    /\ \E cli \in ReadClis : app = new_with_options(SearchIndex, cli)
    /\ phase = "draw"
    /\ height = 14
    /\ output_file = None
    /\ handoff = <<>>
    /\ confirmed = FALSE
    /\ index_dirs = {SearchIndex}
    /\ files = TranscriptFiles
    /\ args = NotParsed

RowKeys == {Named("Enter"), Named("Down"), Named("Up"), Ctrl("c")}
OpenKeys == {Named("Esc"), Char("v")}
PagerKeys == {Named("Esc"), Named("Down"), Named("End")}

NextRead ==
    \/ Draw \/ Sleep \/ Exit
    \/ KeyNormal(RowKeys)
    \/ KeyActionModal(OpenKeys)
    \/ KeyFullView(PagerKeys)

SpecRead == InitRead /\ [][NextRead]_vars

(***************************************************************************)
(* SpecIndex: queries typed over an index that searches and over indexes   *)
(* on which the query engine fails.                                        *)
(***************************************************************************)
IndexPaths == {SearchIndex, BareIndex, LostIndex}
IndexClis == {DefaultCli, [DefaultCli EXCEPT !.query = Some(<<"a">>)],
              [DefaultCli EXCEPT !.global_search = TRUE]}

InitIndex ==
    /\ \E index_path \in IndexPaths, cli \in IndexClis :
           app = new_with_options(index_path, cli)
    /\ phase = "draw"
    /\ height = 14
    /\ output_file = None
    /\ handoff = <<>>
    /\ confirmed = FALSE
    /\ index_dirs = {app.index_path}
    /\ files = TranscriptFiles
    /\ args = NotParsed

TypingKeys ==
    {Named("Esc"), Named("Backspace"), Named("Down"), Ctrl("c"), Ctrl("s"),
     Char("a"), Char("v"), Char(" ")}

NextIndex ==
    \/ Draw \/ Sleep \/ Exit
    \/ KeyNormal(TypingKeys)

SpecIndex == InitIndex /\ [][NextIndex]_vars

(***************************************************************************)
(* SpecTerminal: the terminal main holds, and the errors its calls return. *)
(***************************************************************************)
\* terminal.draw(..)?, event::poll(..)? or event::read()? returns an error
\* and main returns it (lines 3273, 3279, 3280): lines 3850-3862 do not run
IoError ==
    /\ phase \in {"draw", "poll"}
    /\ phase' = "failed"
    /\ UNCHANGED <<app, height, output_file, handoff, confirmed, index_dirs, files, args>>

\* the terminal is in raw mode from enable_raw_mode (line 3266) until
\* disable_raw_mode runs (line 3850), and on the alternate screen from
\* EnterAlternateScreen (line 3268) until LeaveAlternateScreen runs (line
\* 3851); only Exit runs the two
raw_mode == phase \in {"draw", "poll", "teardown", "failed"}
alternate_screen == phase \in {"draw", "poll", "teardown", "failed"}
\* main has returned
Returned == phase \in {"exited", "failed"}

HoldKeys == {Named("Esc"), Named("Down"), Named("Backspace"), Ctrl("c"), Char("a")}

NextTerminal ==
    \/ Loop
    \/ IoError
    \/ KeyNormal(HoldKeys)

SpecTerminal == Init /\ [][NextTerminal]_vars

(***************************************************************************)
(* SpecStart: main started with an index at its index path, at the older   *)
(* location, at both or at neither.                                        *)
(***************************************************************************)
\* ~/.claude/search-index, where older layouts kept the index
LegacyIndex == <<"c">>
IndexLocations == {SearchIndex, LegacyIndex}
\* no App: load_sessions returned its error before one was constructed
NoApp == <<>>

\* main up to the loop: index_path is ~/.cctools/search-index whatever is
\* on disk, load_sessions(index_path, ..)? returns the error of
\* Index::open_in_dir when no index is there, and the App is constructed
\* otherwise (lines 3215-3270)
InitStart ==
    /\ index_dirs \in SUBSET IndexLocations
    /\ files = TranscriptFiles
    /\ args = NotParsed
    /\ IF SearchIndex \in index_dirs
       THEN app = new_with_options(SearchIndex, DefaultCli) /\ phase = "draw"
       ELSE app = NoApp /\ phase = "unavailable"
    /\ height \in Heights
    /\ output_file \in OutputFiles
    /\ handoff = <<>>
    /\ confirmed = FALSE

FirstKeys == {Named("Esc"), Named("Down"), Named("Backspace"), Ctrl("c"), Ctrl("s"),
              Char("a"), Char("v")}

NextStart ==
    \/ Loop
    \/ KeyNormal(FirstKeys)

SpecStart == InitStart /\ [][NextStart]_vars

(***************************************************************************)
(* SpecModes: every mode of the dispatch chain, entered and left.          *)
(***************************************************************************)
ModesClis == {DefaultCli, [DefaultCli EXCEPT !.query = Some(<<"a">>)]}

InitModes ==
    /\ \E cli \in ModesClis : app = new_with_options(SearchIndex, cli)
    /\ phase = "draw"
    /\ height = 14
    /\ output_file = None
    /\ handoff = <<>>
    /\ confirmed = FALSE
    /\ index_dirs = {SearchIndex}
    /\ files = TranscriptFiles
    /\ args = NotParsed

FromNormalKeys ==
    {Named("Esc"), Named("Enter"), Ctrl("c"), Ctrl("f"), Ctrl("g"), Char("/"), Char(":")}
FromScopeKeys == {Named("Esc"), Named("Enter"), Char("3")}
FromMenuKeys == {Named("Esc"), Ctrl("f"), Char("s"), Char("l")}
FromActionKeys == {Named("Esc"), Char("v"), Char("a")}
FromCommandKeys == {Named("Esc"), Char("a"), Char("m")}
FromPromptKeys == {Named("Esc"), Named("Enter"), Char("1")}
FromConfirmKeys == {Named("Esc"), Named("Enter")}
FromViewKeys == {Named("Esc"), Ctrl("c"), Char("/")}
FromViewSearchKeys == {Named("Esc"), Named("Enter"), Char("a")}
FromViewMatchKeys == {Named("Esc"), Char("n"), Char("/")}

NextModes ==
    \/ Draw \/ Sleep \/ Exit
    \/ KeyNormal(FromNormalKeys)
    \/ KeyScopeModal(FromScopeKeys)
    \/ KeyFilterModal(FromMenuKeys)
    \/ KeyActionModal(FromActionKeys)
    \/ KeyCommand(FromCommandKeys)
    \/ KeyInputPrompt(FromPromptKeys)
    \/ KeyExitConfirm(FromConfirmKeys)
    \/ KeyFullView(FromViewKeys)
    \/ KeyViewSearchEntry(FromViewSearchKeys)
    \/ KeyViewSearchActive(FromViewMatchKeys)

SpecModes == InitModes /\ [][NextModes]_vars

(***************************************************************************)
(* SpecRefilter: every key that changes the query, a filter, the scope or  *)
(* the sort mode.                                                          *)
(***************************************************************************)
RefilterClis == {DefaultCli, [DefaultCli EXCEPT !.after_date = Some(<<"1", "/", "9">>)]}

InitRefilter ==
    /\ \E cli \in RefilterClis : app = new_with_options(SearchIndex, cli)
    /\ phase = "draw"
    /\ height = 14
    /\ output_file = None
    /\ handoff = <<>>
    /\ confirmed = FALSE
    /\ index_dirs = {SearchIndex}
    /\ files = TranscriptFiles
    /\ args = NotParsed

EditKeys == {Named("Backspace"), Ctrl("f"), Ctrl("s"), Char("/"), Char(":"), Char("a")}
EditScopeKeys == {Named("Esc"), Char("1"), Char("3")}
EditMenuKeys == {Named("Esc"), Char("s"), Char("e")}
EditCommandKeys == {Char("t"), Char("a"), Char("m"), Char(">"), Char("x")}
EditPromptKeys == {Named("Esc"), Named("Enter"), Named("Backspace"), Char("1")}

NextRefilter ==
    \/ Draw \/ Sleep
    \/ KeyNormal(EditKeys)
    \/ KeyScopeModal(EditScopeKeys)
    \/ KeyFilterModal(EditMenuKeys)
    \/ KeyCommand(EditCommandKeys)
    \/ KeyInputPrompt(EditPromptKeys)

SpecRefilter == InitRefilter /\ [][NextRefilter]_vars

(***************************************************************************)
(* SpecParse: the viewer opened on the newest session, whose transcript    *)
(* file holds any lines of the kinds below.                                *)
(***************************************************************************)
\* the kinds of line of a transcript: messages of one and of two lines of
\* the three roles, a message of white space, a message with no text, a
\* JSON line that is no message, a line that is not JSON, an empty line
LineKinds ==
    {JsonLine("user", << <<"a">> >>), JsonLine("user", << <<"a">>, <<"v">> >>),
     JsonLine("assistant", << <<"v">> >>), JsonLine("system", << <<"a">> >>),
     JsonLine("user", << <<" ">> >>), JsonLine("assistant", <<>>),
     JsonLine("", <<>>), TextLine(<<"x">>), TextLine(<<>>)}
Transcripts == UNION {[1..n -> LineKinds] : n \in 0..MaxLines}
\* the transcript file of the first row of the list
NewestPath == sessions[1].export_path

InitParse ==
    /\ app = new_with_options(SearchIndex, DefaultCli)
    /\ phase = "draw"
    /\ height = 14
    /\ output_file = None
    /\ handoff = <<>>
    /\ confirmed = FALSE
    /\ index_dirs = {SearchIndex}
    /\ \E content \in Transcripts : files = [TranscriptFiles EXCEPT ![NewestPath] = Some(content)]
    /\ args = NotParsed

NextParse ==
    \/ Draw \/ Sleep
    \/ KeyNormal({Named("Enter")})
    \/ KeyActionModal({Named("Esc"), Char("v")})
    \/ KeyFullView({Named("Esc"), Named("Down")})

SpecParse == InitParse /\ [][NextParse]_vars

(***************************************************************************)
(* SpecArgs: main from the command line on.  The arguments after the       *)
(* binary's name are any MaxArgs of the tokens below.                      *)
(***************************************************************************)
Binary == <<"/", "b">>
\* flags with a value, flags without, and words: a directory, a date, a
\* file name ending in .json, a bare word
ArgTokens ==
    {Flag["--dir"], Flag["--after"], Flag["--query"], Flag["-g"], Flag["--json"],
     <<"/", "p">>, <<"1", "/", "9">>, <<"o", ".", "j", "s", "o", "n">>, <<"a">>}
ArgLists == UNION {[1..n -> ArgTokens] : n \in 0..MaxArgs}

\* main up to the loop: the options parsed, the App built from them; with
\* --json the rows are printed and main returns (lines 3213, 3255-3263)
InitArgs ==
    /\ args \in {<<Binary>> \o rest : rest \in ArgLists}
    /\ app = new_with_options(SearchIndex, parse_cli_args(args))
    /\ output_file = output_file_of(args)
    /\ phase = IF has_flag(args, Flag["--json"]) THEN "exited" ELSE "draw"
    /\ height = 14
    /\ handoff = <<>>
    /\ confirmed = FALSE
    /\ index_dirs = {SearchIndex}
    /\ files = TranscriptFiles

NextArgs ==
    \/ Draw \/ Sleep \/ Exit
    \/ KeyNormal({Named("Enter"), Ctrl("c")})
    \/ KeyActionModal({Named("Esc"), Char("a")})

SpecArgs == InitArgs /\ [][NextArgs]_vars

(***************************************************************************)
(* Properties of browsing (Spec)                                           *)
(***************************************************************************)
\* C1: in every state, so after any key event in any mode and after any
\* earlier keys and renders, selected is in [0, max(0, |filtered| - 1)]; it is
\* 0 whenever filtered is empty.
C1_SelectedInRange ==
    /\ app.selected >= 0
    /\ app.selected <= Max(0, Len(app.filtered) - 1)

\* C1, its case: keys have moved the selection to the last of several rows
C1_AtLastRow ==
    /\ phase = "poll"
    /\ Len(app.filtered) > 1
    /\ app.selected = Len(app.filtered) - 1

\* the filter, query and search-pattern state of the App
FilterState(a) ==
    <<a.query, a.filtered, a.sort_by_time, a.scope_global, a.filter_dir,
      a.include_original, a.include_sub, a.include_trimmed, a.include_continued,
      a.filter_agent, a.filter_min_lines, a.filter_after_date, a.filter_before_date,
      a.filter_claude_home, a.filter_codex_home, a.max_results,
      a.input_buffer, a.view_search_pattern>>
\* b is a after a hard quit
HardQuit(a, b) == b.should_quit /\ FilterState(b) = FilterState(a)

\* C9, as the claim states it: in every mode, a Ctrl-C key event sets
\* should_quit and changes no filter, query or search-pattern state.
C9_CtrlCQuitsEveryMode ==
    phase = "poll" => HardQuit(app, on_key(app, Ctrl("c")))

\* the characters that normal mode hands to on_char
TypedChars == {"a", "v", " "}
\* b has the query and rows of a, and the selection at row
Restored(a, b, row) == b.query = a.query /\ b.filtered = a.filtered /\ b.selected = row
CharThenBackspace(a, c) == on_key(on_key(a, Char(c)), Named("Backspace"))

\* C10, as the claim states it: a character and then Backspace in normal
\* mode leave query, filtered and selected as they were, from every state.
C10_SelectedRestored ==
    (phase = "poll" /\ Mode(app) = "normal")
        => \A c \in TypedChars : Restored(app, CharThenBackspace(app, c), app.selected)

\* C10, amended: a character and then Backspace in normal mode leave query
\* and filtered as they were and the selection on the first row.
C10_QueryAndRowsRestored ==
    (phase = "poll" /\ Mode(app) = "normal")
        => \A c \in TypedChars : Restored(app, CharThenBackspace(app, c), 0)

\* C10, its case: the keys are pressed with a later row selected, and the
\* selection is back on the first row
C10_FromLaterRow ==
    /\ phase = "poll" /\ Mode(app) = "normal"
    /\ app.selected > 0
    /\ Restored(app, CharThenBackspace(app, "a"), 0)

\* the JumpToLine prompt is open
InJumpPrompt(a) == Mode(a) = "input-prompt" /\ a.input_mode = Some("JumpToLine")
\* the 1-indexed row r as a row of a list of n rows
RowInRange(r, n) == r >= 1 /\ r <= n
ClampRow(r, n) == Max(1, Min(r, n))

\* C16, as the claim states it: Enter in the JumpToLine prompt with the
\* number r entered selects the 1-indexed row clamp(r, 1, len(filtered)): the
\* last row for a larger number, the first row for 0.
C16_JumpClamped ==
    (phase = "poll" /\ InJumpPrompt(app) /\ IsNumber(app.input_buffer) /\ app.filtered /= <<>>)
        => on_key(app, Named("Enter")).selected
              = ClampRow(NumVal(app.input_buffer), Len(app.filtered)) - 1

\* C16, amended: Enter in the JumpToLine prompt closes the prompt; with a
\* number r in 1..len(filtered) entered it selects the 1-indexed row r and
\* resets the preview scroll; with 0, a larger number or no number entered
\* it leaves the selection and the preview scroll as they are.
C16_JumpWithinRangeOnly ==
    (phase = "poll" /\ InJumpPrompt(app))
        => /\ Mode(on_key(app, Named("Enter"))) = "normal"
           /\ on_key(app, Named("Enter")).filtered = app.filtered
           /\ IF IsNumber(app.input_buffer)
                  /\ RowInRange(NumVal(app.input_buffer), Len(app.filtered))
              THEN /\ on_key(app, Named("Enter")).selected = NumVal(app.input_buffer) - 1
                   /\ on_key(app, Named("Enter")).preview_scroll = 0
              ELSE /\ on_key(app, Named("Enter")).selected = app.selected
                   /\ on_key(app, Named("Enter")).preview_scroll = app.preview_scroll

\* C16, its case: a later row is selected, a number larger than the number
\* of rows is entered, and Enter leaves the selection where it is
C16_JumpPastEnd ==
    /\ phase = "poll" /\ InJumpPrompt(app) /\ IsNumber(app.input_buffer)
    /\ app.selected > 0 /\ app.selected < Len(app.filtered) - 1
    /\ NumVal(app.input_buffer) > Len(app.filtered)
    /\ on_key(app, Named("Enter")).selected = app.selected

\* a filter other than the query is set
FilterBesideQuery(a) ==
    \/ IsSome(a.filter_min_lines) \/ IsSome(a.filter_after_date)
    \/ IsSome(a.filter_before_date) \/ IsSome(a.filter_agent)
    \/ ~a.include_original \/ a.include_sub
    \/ ~a.include_trimmed \/ ~a.include_continued
ConfirmAsked(a) == [a EXCEPT !.confirming_exit = TRUE]
QuitAsked(a) == [a EXCEPT !.should_quit = TRUE]

\* C17, as the claim states it: in normal mode Esc enters exit-confirm when
\* filters are active (a query is one of them) and otherwise quits, and does
\* nothing else, whatever the query.
C17_EscConfirmsOrQuits ==
    (phase = "poll" /\ Mode(app) = "normal")
        => on_key(app, Named("Esc"))
              = IF app.query /= <<>> \/ FilterBesideQuery(app)
                THEN ConfirmAsked(app) ELSE QuitAsked(app)

\* Esc in normal mode: with a query it clears the query and filters again,
\* staying in normal mode; with no query it asks for confirmation when a
\* filter is set and quits otherwise
EscInNormal ==
    (phase = "poll" /\ Mode(app) = "normal")
        => IF app.query /= <<>>
           THEN /\ on_key(app, Named("Esc")).query = <<>>
                /\ Mode(on_key(app, Named("Esc"))) = "normal"
                /\ on_key(app, Named("Esc")).should_quit = app.should_quit
                /\ on_key(app, Named("Esc")) = filter([app EXCEPT !.query = <<>>])
           ELSE on_key(app, Named("Esc"))
                   = IF FilterBesideQuery(app) THEN ConfirmAsked(app) ELSE QuitAsked(app)
\* a step that opens the exit confirmation is Esc in normal mode with no
\* query and a filter set
ConfirmOnlyByEsc ==
    (~app.confirming_exit /\ app'.confirming_exit)
        => /\ Mode(app) = "normal" /\ app.query = <<>> /\ FilterBesideQuery(app)
           /\ app' = ConfirmAsked(app)

\* C17, amended: in normal mode with an empty query, Esc enters exit-confirm
\* when a filter is set and otherwise quits; with a non-empty query it clears
\* the query, filters again and stays in normal mode; exit-confirm is entered
\* only by Esc in normal mode with an empty query and a filter set.
C17_EscClearsQueryFirst == []EscInNormal /\ [][ConfirmOnlyByEsc]_vars

\* C17, its case: a query and another filter are set in normal mode, and Esc
\* clears the query without asking for confirmation
C17_EscWithQueryAndFilter ==
    /\ phase = "poll" /\ Mode(app) = "normal"
    /\ app.query /= <<>> /\ FilterBesideQuery(app)
    /\ ~on_key(app, Named("Esc")).confirming_exit
    /\ on_key(app, Named("Esc")).query = <<>>

(***************************************************************************)
(* Properties of the viewer's load (SpecRead)                              *)
(***************************************************************************)
\* the action modal is open on a session whose transcript file cannot be read
OnUnreadable(a) ==
    /\ Mode(a) = "action-modal" /\ IsSome(selected_session(a))
    /\ read_to_string(Unwrap(selected_session(a)).export_path) = None
IsJsonl(session) == EndsWith(session.export_path, JsonlExt)

\* C19: `v` in the action modal on a session whose transcript file cannot be
\* read enters full view with a viewer buffer of one non-empty placeholder
\* line, whatever the extension of the file.
C19_UnreadableShowsPlaceholder ==
    (phase = "poll" /\ OnUnreadable(app))
        => /\ on_key(app, Char("v")).full_view_mode
           /\ Len(on_key(app, Char("v")).full_content) = 1
           /\ on_key(app, Char("v")).full_content[1] /= <<>>

\* the placeholder is shown when the unreadable file is not a .jsonl file
PlaceholderUnlessJsonl ==
    (phase = "poll" /\ OnUnreadable(app) /\ ~IsJsonl(Unwrap(selected_session(app))))
        => /\ on_key(app, Char("v")).full_view_mode
           /\ Len(on_key(app, Char("v")).full_content) = 1
           /\ on_key(app, Char("v")).full_content[1] /= <<>>
\* the viewer is open with an empty buffer on a session whose .jsonl file
\* cannot be read
UnreadablePlainOpened ==
    /\ phase = "poll" /\ OnUnreadable(app) /\ ~IsJsonl(Unwrap(selected_session(app)))
EmptyViewerOnUnreadableJsonl ==
    /\ phase = "poll" /\ Mode(app) = "full-view" /\ IsSome(selected_session(app))
    /\ IsJsonl(Unwrap(selected_session(app)))
    /\ read_to_string(Unwrap(selected_session(app)).export_path) = None
    /\ app.full_content = <<>>

(***************************************************************************)
(* Properties of a failing query engine (SpecIndex)                        *)
(***************************************************************************)
\* query execution fails on the index of a: it does not open, or its schema
\* lacks a field the search asks for
QueryFails(a) ==
    \/ open_in_dir(a.index_path) = None
    \/ \E f \in {"content", "session_id", "modified"} : f \notin Unwrap(open_in_dir(a.index_path))
\* the list and the snippet map of a are empty
NoMatches(a) == a.filtered = <<>> /\ a.search_snippets = <<>>
\* the characters typed into the query
Typed == {"a", "v"}

\* C20: when query execution fails, a filter run with a non-blank query ends
\* with filtered empty and the snippet map empty, and the loop goes on: a
\* character typed in normal mode is appended to the query, leaves the list
\* and the snippets empty, does not ask to quit and stays in normal mode;
\* and whenever the query is non-blank the list and the snippets are empty.
C20_FailedQueryNoMatches ==
    QueryFails(app)
        => /\ ~IsBlank(app.query) => NoMatches(app)
           /\ (phase = "poll" /\ Mode(app) = "normal")
                 => \A c \in Typed :
                       /\ on_key(app, Char(c)).query = Append(app.query, c)
                       /\ NoMatches(on_key(app, Char(c)))
                       /\ on_key(app, Char(c)).should_quit = app.should_quit
                       /\ Mode(on_key(app, Char(c))) = "normal"

\* C20, its case: a query that has matches in the sessions listed is typed
\* over an index on which query execution fails, and the loop polls on
C20_FailedQueryTyped ==
    /\ phase = "poll" /\ QueryFails(app) /\ ~IsBlank(app.query) /\ ~app.should_quit
    /\ NoMatches(app)
    /\ filter([app EXCEPT !.index_path = SearchIndex]).filtered /= <<>>

(***************************************************************************)
(* Properties of the viewer and the handoff (SpecView)                     *)
(***************************************************************************)
\* the list and preview offsets of a are at least 0 and at most their
\* clamped maxima (the list's last row, the preview's last window)
ListScrollsWithin(a, rows) ==
    /\ a.list_scroll >= 0 /\ a.list_scroll <= Max(0, Len(a.filtered) - 1)
    /\ a.preview_scroll >= 0
    /\ IsSome(selected_session(a))
          => a.preview_scroll <= PreviewMaxScroll(a, ContentHeight(a, rows))
\* the viewer's offset is at least 0 and at most the transcript's last line
FullScrollWithin(a) ==
    a.full_content_scroll >= 0 /\ a.full_content_scroll <= FullMaxScroll(a)

\* C2, as the claim states it: after any key event, not only after the next
\* render, every scroll offset is >= 0 and <= its clamped maximum; Down, j
\* and PageDown in full view never leave full_content_scroll above it.
C2_ScrollsWithinAfterKey ==
    ListScrollsWithin(app, height) /\ FullScrollWithin(app)

\* C2, amended: after any key event the list and preview offsets are within
\* their maxima and full_content_scroll is >= 0; a scroll key may leave
\* full_content_scroll above its maximum, and the next draw of the viewer
\* brings it back.
C2_ScrollsWithinAfterRender ==
    /\ ListScrollsWithin(app, height)
    /\ app.full_content_scroll >= 0
    /\ (phase = "draw" /\ app.full_view_mode) => FullScrollWithin(render(app, height))

\* C2, its case: a scroll key in full view has left full_content_scroll
\* above the maximum, and the draw is due
C2_ScrolledPastEnd ==
    /\ phase = "draw" /\ app.full_view_mode
    /\ app.full_content_scroll > FullMaxScroll(app)

\* C8: when the run is complete the handoff has been written exactly once
\* if the user pressed `a` in the action modal, to the file when output_file
\* is given and to stdout otherwise, and not at all if the run ended without;
\* nothing is written before the loop has ended.
C8_HandoffOnceIffConfirmed ==
    /\ phase /= "exited" => handoff = <<>>
    /\ phase = "exited" => Len(handoff) = (IF confirmed THEN 1 ELSE 0)
    /\ \A i \in 1..Len(handoff) :
          handoff[i].to = (IF IsSome(output_file) THEN "file" ELSE "stdout")

\* C8, its case: a run that ended after `a` in the action modal, with the
\* one handoff written to the output file
C8_ConfirmedRun ==
    phase = "exited" /\ confirmed /\ Len(handoff) = 1 /\ handoff[1].to = "file"

(***************************************************************************)
(* Properties of the filter/sort pipeline (SpecFilter)                     *)
(***************************************************************************)
\* The active filters, as the specification words them.
InHome(a, s) ==
    \/ s.claude_home = <<>>
    \/ (s.agent = "codex" /\ (a.filter_codex_home = None
                                \/ a.filter_codex_home = Some(s.claude_home)))
    \/ (s.agent /= "codex" /\ (a.filter_claude_home = None
                                 \/ a.filter_claude_home = Some(s.claude_home)))
InScope(a, s) ==
    \/ s.cwd = <<>>
    \/ (a.filter_dir /= None
          /\ (s.cwd = Unwrap(a.filter_dir) \/ StartsWith(s.cwd, Unwrap(a.filter_dir) \o <<"/">>)))
    \/ (a.filter_dir = None /\ (a.scope_global \/ s.cwd = launch_cwd))
OfIncludedType(a, s) ==
    \/ (s.is_sidechain /\ a.include_sub)
    \/ (~s.is_sidechain /\ s.derivation_type = "" /\ a.include_original)
    \/ (~s.is_sidechain /\ s.derivation_type = "trimmed" /\ a.include_trimmed)
    \/ (~s.is_sidechain /\ s.derivation_type = "continued" /\ a.include_continued)
    \/ (~s.is_sidechain /\ s.derivation_type \notin {"", "trimmed", "continued"})
OfAgent(a, s) == a.filter_agent = None \/ a.filter_agent = Some(s.agent)
LongEnough(a, s) == a.filter_min_lines = None \/ s.lines >= Unwrap(a.filter_min_lines)
InDateRange(a, s) ==
    \/ s.modified = <<>>
    \/ /\ (a.filter_after_date = None \/ s.modified[1] >= Unwrap(a.filter_after_date))
       /\ (a.filter_before_date = None \/ s.modified[1] <= Unwrap(a.filter_before_date))
Satisfies(a, s) ==
    /\ InHome(a, s) /\ InScope(a, s) /\ OfIncludedType(a, s)
    /\ OfAgent(a, s) /\ LongEnough(a, s) /\ InDateRange(a, s)

Rows(a) == Range(a.filtered)
\* the engine found the session for the query (any session, if it is blank)
Matched(a, s) == IsBlank(a.query) \/ s.session_id \in DOMAIN a.search_snippets
Eligible(a) == {i \in SessionIdx : Satisfies(a, sessions[i]) /\ Matched(a, sessions[i])}

\* C3, as the claim states it: a session is in filtered if and only if it
\* satisfies the conjunction of the home, scope, type, agent, min-lines and
\* date filters.
C3_FilteredIffSatisfies ==
    \A i \in SessionIdx : (i \in Rows(app)) <=> Satisfies(app, sessions[i])

\* C3, amended: every session in filtered satisfies the conjunction of the
\* filters, once each; a session that satisfies it is in filtered when the
\* query is blank or the engine found it, unless max_results cut it off:
\* filtered then holds max_results of those sessions.
C3_FilteredSatisfy ==
    /\ \A i \in Rows(app) : Satisfies(app, sessions[i]) /\ Matched(app, sessions[i])
    /\ Cardinality(Rows(app)) = Len(app.filtered)
    /\ app.max_results = None => Rows(app) = Eligible(app)
    /\ app.max_results /= None
          => Len(app.filtered) = Min(Unwrap(app.max_results), Cardinality(Eligible(app)))

\* C3, its case: a typed query leaves out a session that satisfies every
\* filter, and filters leave out others
C3_SatisfiesButUnmatched ==
    /\ phase = "poll" /\ app.max_results = None /\ app.filtered /= <<>>
    /\ \E i \in SessionIdx : Satisfies(app, sessions[i]) /\ i \notin Rows(app)
    /\ \E i \in SessionIdx : ~Satisfies(app, sessions[i])

ModifiedAt(a, k) == sessions[a.filtered[k]].modified

\* C4, as the claim states it: whenever query is empty, each row's modified
\* is strictly greater than the next row's.
C4_StrictlyDescending ==
    app.query = <<>>
        => \A k \in 1..(Len(app.filtered) - 1) :
              LexLess(ModifiedAt(app, k + 1), ModifiedAt(app, k))

\* C4, amended: whenever query is empty or blank, no row's modified is less
\* than the next row's; rows of equal modified are in index order.
C4_Descending ==
    IsBlank(app.query)
        => \A k \in 1..(Len(app.filtered) - 1) :
              \/ LexLess(ModifiedAt(app, k + 1), ModifiedAt(app, k))
              \/ (ModifiedAt(app, k + 1) = ModifiedAt(app, k)
                    /\ app.filtered[k] < app.filtered[k + 1])

\* C4, its case: the query has been erased and two adjacent rows have one
\* modified time
C4_EqualNeighbours ==
    /\ phase = "poll" /\ app.query = <<>> /\ app.sort_by_time
    /\ \E k \in 1..(Len(app.filtered) - 1) : ModifiedAt(app, k + 1) = ModifiedAt(app, k)

\* the ranking of the engine for the query of a, cut down to the sessions
\* that satisfy the filters
RankedSatisfying(a) ==
    SelectSeq(search_tantivy(a.index_path, a.query, a.filter_claude_home,
                             a.filter_codex_home).ranked_ids,
              LAMBDA id : \E i \in SessionIdx : sessions[i].session_id = id
                                                  /\ Satisfies(a, sessions[i]))
FilteredIds(a) == [k \in 1..Len(a.filtered) |-> sessions[a.filtered[k]].session_id]
\* ids is the ranking, or the max_results first of it
InRankOrder(a, ids, ranking) ==
    ids = (IF a.max_results = None THEN ranking ELSE Truncate(ranking, Unwrap(a.max_results)))

\* C5, as the claim states it: whenever query is non-empty and sort-by-time
\* is off, filtered is the engine's ranking restricted to the sessions that
\* pass the filters (its first max_results, if set).
C5_RankOrderIfNonEmpty ==
    (app.query /= <<>> /\ ~app.sort_by_time)
        => InRankOrder(app, FilteredIds(app), RankedSatisfying(app))

\* C5, amended: whenever query has a non-blank character and sort-by-time
\* is off, filtered is the engine's ranking restricted to the sessions that
\* pass the filters (its first max_results, if set).
C5_RankOrderIfNonBlank ==
    (~IsBlank(app.query) /\ ~app.sort_by_time)
        => InRankOrder(app, FilteredIds(app), RankedSatisfying(app))

\* C5, its case: a query is there, sort-by-time is off, and the ranking puts
\* an older session before a newer one
C5_RankedAgainstTime ==
    /\ phase = "poll" /\ ~IsBlank(app.query) /\ ~app.sort_by_time
    /\ \E k \in 1..(Len(app.filtered) - 1) :
          LexLess(ModifiedAt(app, k), ModifiedAt(app, k + 1))

DerivationTypes == {"", "trimmed", "continued", "forked"}

\* C6: a sub-agent session passes the type-inclusion step iff include_sub
\* is on, for any values of include_original, include_trimmed and
\* include_continued and any derivation_type of the session; so no
\* sub-agent session is in filtered with include_sub off.
C6_SubAgentByIncludeSubOnly ==
    /\ \A i \in SessionIdx, o \in BOOLEAN, t \in BOOLEAN, c \in BOOLEAN, d \in DerivationTypes :
          sessions[i].is_sidechain
              => (TypePass([app EXCEPT !.include_original = o, !.include_trimmed = t,
                                       !.include_continued = c],
                           [sessions[i] EXCEPT !.derivation_type = d])
                    <=> app.include_sub)
    /\ \A i \in Rows(app) : sessions[i].is_sidechain => app.include_sub

\* C6, its case: include_sub is on, include_original is off, and an
\* original sub-agent session is in filtered
C6_SubAgentListed ==
    /\ phase = "poll" /\ app.include_sub /\ ~app.include_original
    /\ \E i \in Rows(app) : sessions[i].is_sidechain /\ sessions[i].derivation_type = ""

\* C7: when max_results is set to L, filtered has at most L rows, after
\* construction and after every key event.
C7_AtMostMaxResults ==
    IsSome(app.max_results) => Len(app.filtered) <= Unwrap(app.max_results)

\* C7, its case: after keys, more sessions are eligible than max_results and
\* filtered holds max_results of them
C7_CutToMaxResults ==
    /\ phase = "poll" /\ app.query /= <<>>
    /\ IsSome(app.max_results) /\ Unwrap(app.max_results) > 0
    /\ Len(app.filtered) = Unwrap(app.max_results)
    /\ Cardinality(Eligible(app)) > Unwrap(app.max_results)

(***************************************************************************)
(* Properties of the overlays (SpecOverlay)                                *)
(***************************************************************************)
\* the view-model state of the App: the query, the active filters, the rows,
\* the selection and the scroll offsets
ViewState(a) ==
    <<a.query, a.filtered, a.selected, a.list_scroll, a.preview_scroll, a.full_content_scroll,
      a.search_snippets, a.sort_by_time, a.scope_global, a.filter_dir,
      a.include_original, a.include_sub, a.include_trimmed, a.include_continued,
      a.filter_agent, a.filter_min_lines, a.filter_after_date, a.filter_after_date_display,
      a.filter_before_date, a.filter_before_date_display,
      a.filter_claude_home, a.filter_codex_home, a.max_results>>
\* the App after the keys of a sequence, one after the other
RECURSIVE PressKeys(_, _)
PressKeys(a, keys) ==
    IF keys = <<>> THEN a ELSE PressKeys(on_key(a, Head(keys)), Tail(keys))
\* the keys that lead from normal mode into an overlay
Openers ==
    {<<Ctrl("f")>>, <<Char("/")>>, <<Named("Enter")>>, <<Char(":")>>, <<Ctrl("g")>>,
     <<Named("Esc")>>,
     <<Char(":"), Char("a")>>, <<Char(":"), Char("m")>>, <<Char(":"), Char(">")>>,
     <<Char(":"), Char("<")>>, <<Char("/"), Char("3")>>,
     <<Ctrl("f"), Char("l")>>, <<Ctrl("f"), Char(">")>>, <<Ctrl("f"), Char("<")>>}
Overlays ==
    {"scope-modal", "filter-modal", "action-modal", "command", "input-prompt", "exit-confirm"}
\* b is a back in normal mode, with the view-model state of a and no quit
\* requested that a had not
BackToNormal(a, b) ==
    Mode(b) = "normal" /\ b.should_quit = a.should_quit /\ ViewState(b) = ViewState(a)

\* C11: from every normal-mode state, keys that open an overlay (the filter
\* modal, the scope modal, the action modal, command mode, an input prompt of
\* any kind, the exit confirmation) followed by Esc lead back to normal mode
\* with query, filters, filtered, selected and the scrolls unchanged.
C11_OpenThenEscUnchanged ==
    (phase = "poll" /\ Mode(app) = "normal")
        => \A o \in Openers :
              Mode(PressKeys(app, o)) \in Overlays
                  => BackToNormal(app, on_key(PressKeys(app, o), Named("Esc")))

\* C11, its case: with a later row selected and filters active, Esc opens
\* the exit confirmation and a second Esc gives the state back
C11_ConfirmOpenedAndClosed ==
    /\ phase = "poll" /\ Mode(app) = "normal" /\ app.selected > 0
    /\ Mode(on_key(app, Named("Esc"))) = "exit-confirm"
    /\ on_key(on_key(app, Named("Esc")), Named("Esc")) = app

\* the shortcut and command characters of the four inclusion toggles
ToggleChars == {"o", "s", "t", "c"}
\* the rows of the filter modal that hold the four inclusion toggles
ToggleRows == {i \in 0..(Len(FilterMenuItems) - 1) : FilterMenuItems[i + 1].shortcut \in ToggleChars}
SameRows(a, b) == b.filtered = a.filtered

\* C12: toggling one inclusion filter (original, sub-agent, trimmed,
\* continued) twice in a row leaves filtered as it was before the first
\* toggle: by `:` and the character in command mode, twice; in the filter
\* modal by the shortcut twice, and by Enter twice on the toggle's row.
C12_ToggleTwiceSameRows ==
    /\ (phase = "poll" /\ Mode(app) = "normal")
          => \A c \in ToggleChars :
                SameRows(app, PressKeys(app, <<Char(":"), Char(c), Char(":"), Char(c)>>))
    /\ (phase = "poll" /\ Mode(app) = "filter-modal")
          => /\ \A c \in ToggleChars : SameRows(app, PressKeys(app, <<Char(c), Char(c)>>))
             /\ \A r \in ToggleRows :
                   SameRows(app, PressKeys([app EXCEPT !.filter_modal_selected = r],
                                           <<Named("Enter"), Named("Enter")>>))

\* C12, its case: in the filter modal, with rows listed, one toggle of the
\* sub-agent filter changes filtered and the second brings it back
C12_ToggledAndBack ==
    /\ phase = "poll" /\ Mode(app) = "filter-modal" /\ app.filtered /= <<>>
    /\ ~SameRows(app, on_key(app, Char("s")))
    /\ SameRows(app, PressKeys(app, <<Char("s"), Char("s")>>))

(***************************************************************************)
(* Properties of the command-line options and the date prompts (SpecCli)   *)
(***************************************************************************)
\* the session has a modified timestamp that normalises to a date
HasDate(s) == s.modified /= <<>>
\* the session passes every filter other than the date range, and the query
PassesButDate(a, s) ==
    /\ InHome(a, s) /\ InScope(a, s) /\ OfIncludedType(a, s)
    /\ OfAgent(a, s) /\ LongEnough(a, s) /\ Matched(a, s)
AfterExceedsBefore(a) ==
    /\ IsSome(a.filter_after_date) /\ IsSome(a.filter_before_date)
    /\ Unwrap(a.filter_after_date) > Unwrap(a.filter_before_date)
OneDay(a) ==
    /\ IsSome(a.filter_after_date) /\ IsSome(a.filter_before_date)
    /\ Unwrap(a.filter_after_date) = Unwrap(a.filter_before_date)

\* C13, as the claim states it: with after_date > before_date filtered is
\* empty whatever the sessions are; with after = before = D a session (that
\* the other filters let through) is in filtered iff its modified date is D.
C13_EmptyWhenAfterExceedsBefore ==
    /\ AfterExceedsBefore(app) => app.filtered = <<>>
    /\ (OneDay(app) /\ app.max_results = None)
          => \A i \in SessionIdx :
                PassesButDate(app, sessions[i])
                    => (i \in Rows(app)
                          <=> (HasDate(sessions[i])
                                 /\ sessions[i].modified[1] = Unwrap(app.filter_after_date)))

\* C13, amended: with after_date > before_date filtered holds no session
\* whose modified normalises to a date (sessions whose modified does not are
\* not tested against the bounds and stay); with after = before = D a session
\* that the other filters let through is in filtered iff the date of its
\* modified is D or its modified does not normalise to a date.
C13_DatedRowsWithinBounds ==
    /\ AfterExceedsBefore(app) => \A i \in Rows(app) : ~HasDate(sessions[i])
    /\ (OneDay(app) /\ app.max_results = None)
          => \A i \in SessionIdx :
                PassesButDate(app, sessions[i])
                    => (i \in Rows(app)
                          <=> (~HasDate(sessions[i])
                                 \/ sessions[i].modified[1] = Unwrap(app.filter_after_date)))

\* C13, its case: after = before = D, a session modified on D is listed and
\* a session modified on another day, which passes the other filters, is not
C13_OneDayListed ==
    /\ phase = "poll" /\ OneDay(app)
    /\ \E i \in Rows(app) :
          HasDate(sessions[i]) /\ sessions[i].modified[1] = Unwrap(app.filter_after_date)
    /\ \E i \in SessionIdx \ Rows(app) :
          HasDate(sessions[i]) /\ PassesButDate(app, sessions[i])

\* a is the App as constructed for the launch cli (the first conjuncts
\* follow from the last, and tell most states and launches apart at once)
Launched(cli, a) ==
    /\ Mode(a) = "normal" /\ ~a.should_quit
    /\ a.include_sub = cli.include_sub
    /\ a.scope_global = cli.global_search
    /\ IsSome(a.filter_after_date) = IsSome(cli.after_date)
    /\ IsSome(a.filter_before_date) = IsSome(cli.before_date)
    /\ a = new_with_options(SearchIndex, cli)
NoTypeFlag(cli) ==
    ~cli.include_original /\ ~cli.include_sub /\ ~cli.include_trimmed /\ ~cli.include_continued
\* the include flags of a are the defaults if no type flag was given and
\* the given flags otherwise
FlagsAsGiven(cli, a) ==
    IF NoTypeFlag(cli)
    THEN a.include_original /\ a.include_trimmed /\ a.include_continued /\ ~a.include_sub
    ELSE /\ a.include_original = cli.include_original /\ a.include_sub = cli.include_sub
         /\ a.include_trimmed = cli.include_trimmed
         /\ a.include_continued = cli.include_continued
\* s is a sub-agent, original, trimmed or continued session and the flag of
\* its type was given
OfFlaggedType(cli, s) ==
    \/ (s.is_sidechain /\ cli.include_sub)
    \/ (~s.is_sidechain /\ s.derivation_type = "" /\ cli.include_original)
    \/ (~s.is_sidechain /\ s.derivation_type = "trimmed" /\ cli.include_trimmed)
    \/ (~s.is_sidechain /\ s.derivation_type = "continued" /\ cli.include_continued)
\* s is not a sub-agent session and its derivation type is none of the three
OfUnknownType(s) == ~s.is_sidechain /\ s.derivation_type \notin {"", "trimmed", "continued"}
\* the session passes every filter other than the type inclusion, and the query
PassesButType(a, s) ==
    /\ InHome(a, s) /\ InScope(a, s) /\ OfAgent(a, s)
    /\ LongEnough(a, s) /\ InDateRange(a, s) /\ Matched(a, s)

\* C15, as the claim states it: launched with no type flag, original,
\* trimmed and continued sessions are listed and sub-agent sessions are not;
\* launched with some, exactly the sessions of the flagged types are listed
\* and all others are not (--sub-agent alone lists only sub-agent sessions).
C15_OnlyFlaggedTypes ==
    \A cli \in CliClis :
        Launched(cli, app)
            => /\ FlagsAsGiven(cli, app)
               /\ \A i \in SessionIdx :
                     PassesButType(app, sessions[i])
                         => IF NoTypeFlag(cli)
                            THEN /\ sessions[i].is_sidechain => i \notin Rows(app)
                                 /\ (~sessions[i].is_sidechain /\ ~OfUnknownType(sessions[i]))
                                       => i \in Rows(app)
                            ELSE i \in Rows(app) <=> OfFlaggedType(cli, sessions[i])

\* C15, amended: launched with no type flag, the sessions that are not
\* sub-agent sessions are listed; launched with some, the listed sessions
\* are those of the flagged types and, whatever the flags, the sessions that
\* are not sub-agent sessions and have an unknown derivation type.
C15_FlaggedAndUnknownTypes ==
    \A cli \in CliClis :
        Launched(cli, app)
            => /\ FlagsAsGiven(cli, app)
               /\ \A i \in SessionIdx :
                     PassesButType(app, sessions[i])
                         => IF NoTypeFlag(cli)
                            THEN i \in Rows(app) <=> ~sessions[i].is_sidechain
                            ELSE i \in Rows(app) <=> (OfFlaggedType(cli, sessions[i])
                                                       \/ OfUnknownType(sessions[i]))

\* C15, its case: launched with --sub-agent alone; a sub-agent session is
\* listed, and an original session that passes the other filters is not
C15_SubAgentAlone ==
    /\ phase = "poll" /\ Launched([DefaultCli EXCEPT !.include_sub = TRUE], app)
    /\ \E i \in Rows(app) : sessions[i].is_sidechain
    /\ \E i \in SessionIdx \ Rows(app) :
          /\ PassesButType(app, sessions[i])
          /\ ~sessions[i].is_sidechain /\ sessions[i].derivation_type = ""

\* a date prompt is open
InDatePrompt(a) ==
    Mode(a) = "input-prompt" /\ a.input_mode \in {Some("AfterDate"), Some("BeforeDate")}
\* the four fields of the two date filters
DateFilters(a) ==
    <<a.filter_after_date, a.filter_after_date_display,
      a.filter_before_date, a.filter_before_date_display>>
\* the text entered is not a date
Unparsed(a) == a.input_buffer /= <<>> /\ parse_flexible_date(a.input_buffer) = None

\* C18: Enter in the after or before date prompt with a text that does not
\* parse as a date leaves both date filters (comparison and display values)
\* unchanged and closes the prompt: normal mode, empty buffer, no quit.
C18_UnparsedDateKeepsFilter ==
    (phase = "poll" /\ InDatePrompt(app) /\ Unparsed(app))
        => /\ DateFilters(on_key(app, Named("Enter"))) = DateFilters(app)
           /\ on_key(app, Named("Enter")).input_mode = None
           /\ on_key(app, Named("Enter")).input_buffer = <<>>
           /\ Mode(on_key(app, Named("Enter"))) = "normal"
           /\ on_key(app, Named("Enter")).should_quit = app.should_quit

\* C18, its case: the prompt of a date filter that is set holds a text that
\* is not a date
C18_SetFilterUnparsedEntry ==
    /\ phase = "poll" /\ Unparsed(app)
    /\ \/ Mode(app) = "input-prompt" /\ app.input_mode = Some("AfterDate")
          /\ IsSome(app.filter_after_date)
       \/ Mode(app) = "input-prompt" /\ app.input_mode = Some("BeforeDate")
          /\ IsSome(app.filter_before_date)
    /\ DateFilters(on_key(app, Named("Enter"))) = DateFilters(app)

(***************************************************************************)
(* Properties of the scope filter (SpecFilter)                             *)
(***************************************************************************)
\* cwd is the directory dir or a directory below it
UnderDir(cwd, dir) == cwd = dir \/ StartsWith(cwd, dir \o <<"/">>)
\* the default scope: no --dir, not global
LocalScope(a) == a.filter_dir = None /\ ~a.scope_global
\* the session passes every filter other than the scope, and the query
PassesButScope(a, s) ==
    /\ InHome(a, s) /\ OfIncludedType(a, s) /\ OfAgent(a, s)
    /\ LongEnough(a, s) /\ InDateRange(a, s) /\ Matched(a, s)

\* C14, as the claim states it: in the local scope with launch directory D
\* a session (that the other filters let through) whose cwd is D or below D is
\* in filtered, and one whose cwd is outside D is not.
C14_LocalScopeWithSubDirs ==
    (LocalScope(app) /\ app.max_results = None)
        => \A i \in SessionIdx :
              PassesButScope(app, sessions[i])
                  => /\ UnderDir(sessions[i].cwd, launch_cwd) => i \in Rows(app)
                     /\ (sessions[i].cwd /= <<>> /\ ~UnderDir(sessions[i].cwd, launch_cwd))
                           => i \notin Rows(app)

\* C14, amended: in the local scope with launch directory D a session that
\* the other filters let through is in filtered iff its cwd is D or is
\* empty; a session whose cwd is below D is left out like one outside D.
C14_LocalScopeExactDir ==
    (LocalScope(app) /\ app.max_results = None)
        => \A i \in SessionIdx :
              PassesButScope(app, sessions[i])
                  => (i \in Rows(app)
                        <=> (sessions[i].cwd = launch_cwd \/ sessions[i].cwd = <<>>))

\* C14, its case: in the local scope a session of D is listed and a session
\* of a directory below D, which passes the other filters, is not
C14_SubDirLeftOut ==
    /\ phase = "poll" /\ LocalScope(app) /\ app.max_results = None
    /\ \E i \in Rows(app) : sessions[i].cwd = launch_cwd
    /\ \E i \in SessionIdx \ Rows(app) :
          /\ PassesButScope(app, sessions[i])
          /\ StartsWith(sessions[i].cwd, launch_cwd \o <<"/">>)

(***************************************************************************)
(* Properties of the terminal (SpecTerminal)                               *)
(***************************************************************************)
\* C21: once main has returned, by whatever path (the end of main or an
\* error returned by drawing, polling or reading events), the terminal is
\* neither in raw mode nor on the alternate screen.
C21_ReleasedOnEveryExit == Returned => (~raw_mode /\ ~alternate_screen)

\* the terminal is released at the end of main
ReleasedAtEnd == phase = "exited" => (~raw_mode /\ ~alternate_screen)
\* main has returned an error out of the loop with the terminal still held
FailedHolding == phase = "failed" /\ raw_mode /\ alternate_screen


(***************************************************************************)
(* Properties of Ctrl-C (Spec)                                             *)
(***************************************************************************)
\* the App once Ctrl-C has been handled in normal mode
AfterCtrlC(a) == on_key(a, Ctrl("c"))
\* keys that arrive after the Ctrl-C, in the same drain of pending events
LaterKeys == {Char("a"), Named("Down"), Named("Backspace"), Named("Enter"), Char(":")}
\* the keys that select the current row for handoff
SelectKeys == <<Named("Enter"), Char("a")>>

\* C22: once Ctrl-C has been handled, a key event that arrives after it,
\* queued in the same drain included, leaves the view model as it is, and
\* the keys that confirm a selection select nothing for handoff.
C22_NothingAfterCtrlC ==
    (phase = "poll" /\ Mode(app) = "normal")
        => /\ \A k \in LaterKeys : on_key(AfterCtrlC(app), k) = AfterCtrlC(app)
           /\ PressKeys(AfterCtrlC(app), SelectKeys).should_select = app.should_select

\* Ctrl-C in normal mode asks to quit and changes nothing else
CtrlCAsksToQuit ==
    (phase = "poll" /\ Mode(app) = "normal")
        => AfterCtrlC(app) = [app EXCEPT !.should_quit = TRUE]
\* the drain loop is still reading keys with a quit pending and a session
\* listed: a key typed now is handled before the quit is seen
DrainingWithQuitPending ==
    /\ phase = "poll" /\ Mode(app) = "normal" /\ app.should_quit
    /\ app.filtered /= <<>> /\ app.should_select = None
    /\ IsSome(PressKeys(app, SelectKeys).should_select)


(***************************************************************************)
(* Properties of the JSON written (SpecView)                               *)
(***************************************************************************)
\* the field set the specification gives for the handoff and the rows
RowFields ==
    {"session_id", "agent", "project", "branch", "cwd", "lines", "created", "modified",
     "first_msg", "last_msg", "file_path", "derivation_type", "is_sidechain", "snippet"}
\* the field set of a serialized Session
SerializedFields ==
    {"session_id", "agent", "project", "branch", "cwd", "created", "modified", "lines",
     "file_path", "first_msg_role", "first_msg_content", "last_msg_role",
     "last_msg_content", "derivation_type", "is_sidechain", "claude_home"}
\* the rows --json prints for a launch with a query and for one without
JsonRuns ==
    {output_json(new_with_options(SearchIndex, cli), cli.num_results) :
        cli \in {DefaultCli, [DefaultCli EXCEPT !.query = Some(<<"a">>)]}}
RowsHaveRowFields ==
    \A rows \in JsonRuns : \A r \in 1..Len(rows) : DOMAIN rows[r] = RowFields

\* C23, as the claim states it: the object written for a confirmed
\* selection has exactly the fields session_id, agent, project, branch, cwd,
\* lines, created, modified, first_msg, last_msg, file_path,
\* derivation_type, is_sidechain, snippet, as each row of --json has.
C23_HandoffHasRowFields ==
    /\ \A i \in 1..Len(handoff) : DOMAIN handoff[i].json = RowFields
    /\ RowsHaveRowFields

\* C23, amended: each row of --json has exactly the fields above; the
\* object written for a confirmed selection is the serialized Session: it
\* has first_msg_role, first_msg_content, last_msg_role, last_msg_content
\* and claude_home, has no first_msg, last_msg or snippet, and shares with
\* the rows the other eleven fields, file_path being the export path.
C23_HandoffIsSerializedSession ==
    /\ \A i \in 1..Len(handoff) :
          /\ DOMAIN handoff[i].json = SerializedFields
          /\ handoff[i].json["session_id"] = handoff[i].session_id
          /\ \E j \in SessionIdx :
                /\ sessions[j].session_id = handoff[i].session_id
                /\ handoff[i].json["file_path"] = sessions[j].export_path
    /\ RowsHaveRowFields
    /\ Cardinality(SerializedFields \cap RowFields) = 11

\* C23, its case: a selection was confirmed and its object written, and
\* --json prints at least one row
C23_HandoffWritten ==
    /\ phase = "exited" /\ confirmed /\ Len(handoff) = 1
    /\ "claude_home" \in DOMAIN handoff[1].json
    /\ \E rows \in JsonRuns : rows /= <<>>


(***************************************************************************)
(* Properties of a whitespace-only query (SpecFilter)                      *)
(***************************************************************************)
WhitespaceOnly(q) == q /= <<>> /\ IsBlank(q)
NoResult == [snippets |-> <<>>, ranked_ids |-> <<>>]

\* C24: for a whitespace-only query the query engine returns an empty
\* result, and filtered is what it is for the empty query: the sessions that
\* pass the other filters (the first max_results of them), in descending
\* modified order, and not the empty list when some session passes.
C24_WhitespaceQueryChronological ==
    WhitespaceOnly(app.query)
        => /\ search_tantivy(app.index_path, app.query, app.filter_claude_home,
                             app.filter_codex_home) = NoResult
           /\ app.search_snippets = <<>>
           /\ app.filtered = filter([app EXCEPT !.query = <<>>]).filtered
           /\ app.max_results = None
                 => Rows(app) = {i \in SessionIdx : Satisfies(app, sessions[i])}
           /\ \A k \in 1..(Len(app.filtered) - 1) :
                 ~LexLess(ModifiedAt(app, k), ModifiedAt(app, k + 1))

\* C24, its case: the query is one space, and several sessions are listed,
\* one of which no query word would find
C24_SpaceTypedRowsListed ==
    /\ phase = "poll" /\ WhitespaceOnly(app.query)
    /\ Len(app.filtered) >= 2
    /\ \E k \in 1..(Len(app.filtered) - 1) :
          LexLess(ModifiedAt(app, k + 1), ModifiedAt(app, k))


(***************************************************************************)
(* Properties of the start (SpecStart)                                     *)
(***************************************************************************)
\* main has loaded the sessions and constructed the App
SessionsLoaded == phase /= "unavailable" /\ app /= NoApp

\* C25: when an index exists at ~/.cctools/search-index, and also when one
\* exists only at the older location ~/.claude/search-index, the sessions
\* are loaded and main does not fail with the index unavailable.
C25_IndexFoundAtEitherLocation ==
    (SearchIndex \in index_dirs \/ LegacyIndex \in index_dirs) => SessionsLoaded

\* the sessions are loaded exactly when an index is at ~/.cctools/search-index
LoadedFromIndexPathOnly == SessionsLoaded <=> SearchIndex \in index_dirs
\* an index is at the older location only, and main has failed
LegacyOnlyUnavailable == index_dirs = {LegacyIndex} /\ phase = "unavailable"


(***************************************************************************)
(* Properties of the mode flags (SpecModes)                                *)
(***************************************************************************)
\* the mode flags of the App, in the order of the dispatch chain
ModeFlags(a) ==
    <<a.confirming_exit, a.full_view_mode, a.scope_modal_open, a.filter_modal_open,
      IsSome(a.action_mode), IsSome(a.input_mode), a.command_mode>>
FlagsSet(a) == {i \in 1..Len(ModeFlags(a)) : ModeFlags(a)[i]}

\* C26: in every reachable state at most one of confirming_exit,
\* full_view_mode, scope_modal_open, filter_modal_open, action_mode,
\* input_mode and command_mode is set, and view_search_mode is set only
\* while full_view_mode is; command mode and an input prompt are never
\* active together.
C26_OneModeActive ==
    /\ Cardinality(FlagsSet(app)) <= 1
    /\ app.view_search_mode => app.full_view_mode
    /\ ~(app.command_mode /\ IsSome(app.input_mode))


\* C26, its case: every mode has been active, one at a time, here the input
\* prompt opened from the scope modal, with the flags of the modes passed
\* through (the filter modal's toggle, the viewer) cleared
C26_PromptFromScopeModal ==
    /\ phase = "poll" /\ app.input_mode = Some("ScopeDir")
    /\ FlagsSet(app) = {6}
    /\ app.include_sub /\ app.full_content /= <<>>


(***************************************************************************)
(* Properties of re-filtering (SpecRefilter)                               *)
(***************************************************************************)
\* what a run of the filter reads: the query, the inclusion flags, the
\* agent, min-lines and date filters, the scope and directory, the sort mode
FilterInputs(a) ==
    <<a.query, a.include_original, a.include_sub, a.include_trimmed, a.include_continued,
      a.filter_agent, a.filter_min_lines, a.filter_after_date, a.filter_before_date,
      a.scope_global, a.filter_dir, a.sort_by_time>>
\* the list and the snippets of a are those of a run of the filter on a
UpToDate(a) ==
    /\ a.filtered = filter(a).filtered
    /\ a.search_snippets = filter(a).search_snippets

\* C27: at every frame boundary, and after every key event, filtered is the
\* result of the filter/sort pipeline on the current query, filters, scope
\* and sort mode: a key handler that changes one of them runs the filter
\* before it returns.
C27_FilteredUpToDate == phase /= "unavailable" => UpToDate(app)

\* C27, its case: a frame is due after keys have changed the query, an
\* inclusion flag, the agent filter, the scope and the sort mode from what
\* they were at the start
C27_FrameAfterChanges ==
    /\ phase = "draw" /\ ~app.should_quit
    /\ app.query /= <<>> /\ ~app.include_trimmed /\ IsSome(app.filter_agent)
    /\ app.scope_global /\ app.sort_by_time /\ IsSome(app.filter_min_lines)
    /\ app.filter_after_date = None


(***************************************************************************)
(* Properties of the query outside normal mode (SpecModes)                 *)
(***************************************************************************)
\* keys of every kind: the named keys, the control keys, and the characters
\* that are commands, shortcuts, digits or plain text in some mode
AnyKeys ==
    {Named("Esc"), Named("Enter"), Named("Backspace"), Named("Up"), Named("Down"),
     Named("Home"), Named("End"), Ctrl("c"), Ctrl("f"), Ctrl("g"), Ctrl("s"),
     Char("a"), Char("x"), Char("0"), Char("1"), Char("3"), Char("s"), Char("v"),
     Char("y"), Char("n"), Char("q"), Char("/"), Char(":"), Char(" ")}

\* C28: a key event handled in a mode other than normal mode (command, input
\* prompt, filter, scope or action modal, full view, in-view search,
\* exit-confirm) leaves query unchanged; a step that changes query is a key
\* handled in normal mode.
C28_QueryOnlyInNormalMode ==
    /\ [](phase = "poll" /\ Mode(app) /= "normal"
            => \A k \in AnyKeys : on_key(app, k).query = app.query)
    /\ [][app'.query /= app.query => Mode(app) = "normal"]_vars

\* C28, its case: with a query typed, command mode is open and its reset
\* key clears the filters and leaves the query
C28_ResetKeepsQuery ==
    /\ phase = "poll" /\ Mode(app) = "command" /\ app.query /= <<>>
    /\ on_key(app, Char("x")).query = app.query
    /\ on_key(app, Char("x")) /= app


(***************************************************************************)
(* Properties of the selection after a filter update (Spec)                *)
(***************************************************************************)
\* the selection and both scrolls of a are at the top
AtTop(a) == a.selected = 0 /\ a.list_scroll = 0 /\ a.preview_scroll = 0

\* C29: every filter update resets selected, list_scroll and preview_scroll
\* to 0: after a key that changes the query, a filter, the scope or the sort
\* mode, and after a Backspace or Ctrl-S in normal mode, which re-run the
\* filter whatever they change, the three are 0.
C29_FilterUpdateResets ==
    phase = "poll" =>
        \A k \in AnyKeys :
            LET b == on_key(app, k)
            IN (\/ FilterInputs(b) /= FilterInputs(app)
                \/ (Mode(app) = "normal" /\ k \in {Named("Backspace"), Ctrl("s")}))
               => AtTop(b)

\* C29, its case: a row below the first is selected and the list is
\* scrolled (no key is bound to scroll_preview_up or scroll_preview_down, so
\* the preview never is), and a typed character changes the query
C29_TypedWhileScrolled ==
    /\ phase = "poll" /\ Mode(app) = "normal"
    /\ app.selected > 0 /\ app.list_scroll > 0
    /\ on_key(app, Char("a")).query /= app.query
    /\ AtTop(on_key(app, Char("a")))


(***************************************************************************)
(* Properties of the directory scope (SpecFilter)                          *)
(***************************************************************************)
\* cwd is the directory P or lies below it
InDir(cwd, P) == cwd = P \/ StartsWith(cwd, P \o <<"/">>)
\* the sessions listed
Retained(a) == {sessions[a.filtered[k]] : k \in 1..Len(a.filtered)}

\* C30 as stated: with filter_dir set to P, exactly the sessions whose cwd is
\* P or begins with P + "/" pass the scope filter, whatever the scope flag,
\* and no session listed has a sibling directory or an empty cwd.
C30_OnlyInDirRetained ==
    IsSome(app.filter_dir) =>
        LET P == Unwrap(app.filter_dir)
        IN /\ \A i \in SessionIdx, g \in BOOLEAN :
                ScopePass([app EXCEPT !.scope_global = g], sessions[i])
                    <=> InDir(sessions[i].cwd, P)
           /\ \A s \in Retained(app) : InDir(s.cwd, P)

\* C30: with filter_dir set to P, exactly the sessions whose cwd is P, begins
\* with P + "/" or is empty pass the scope filter, whatever the scope flag:
\* every session listed is one of them, and a sibling such as P + "2" is not
\* listed.
C30_InDirOrUnknownRetained ==
    IsSome(app.filter_dir) =>
        LET P == Unwrap(app.filter_dir)
        IN /\ \A i \in SessionIdx, g \in BOOLEAN :
                ScopePass([app EXCEPT !.scope_global = g], sessions[i])
                    <=> (InDir(sessions[i].cwd, P) \/ sessions[i].cwd = <<>>)
           /\ \A s \in Retained(app) : InDir(s.cwd, P) \/ s.cwd = <<>>
           /\ \A s \in Retained(app) : s.cwd /= P \o <<"2">>

\* C30, its case: a directory is set, a session of a sibling directory
\* exists and is not listed, and the sessions listed include one of the
\* directory, one below it and one with an empty cwd
C30_DirSetSiblingLeftOut ==
    /\ IsSome(app.filter_dir)
    /\ \E i \in SessionIdx : sessions[i].cwd = Unwrap(app.filter_dir) \o <<"2">>
    /\ \E s \in Retained(app) : s.cwd = Unwrap(app.filter_dir)
    /\ \E s \in Retained(app) : StartsWith(s.cwd, Unwrap(app.filter_dir) \o <<"/">>)
    /\ \E s \in Retained(app) : s.cwd = <<>>


(***************************************************************************)
(* Properties of the list window (Spec)                                    *)
(***************************************************************************)
\* the rows the list pane of a frame of the given height shows
visible_items(a, rows) == VisibleItems(ContentHeight(a, rows))
\* the selected row of a is one of the n rows shown from list_scroll
SelectedVisible(a, n) == a.list_scroll <= a.selected /\ a.selected < a.list_scroll + n

\* C31: after every render of a non-empty list with visible_items >= 1,
\* the selected row is visible: list_scroll <= selected < list_scroll +
\* visible_items.  Stated of the draw step of the loop, and of a render of
\* any reachable App at either frame height.
C31_SelectedVisibleAfterRender ==
    /\ [][(phase = "draw" /\ ~app.full_view_mode /\ app.filtered /= <<>>
             /\ visible_items(app, height) >= 1 /\ phase' /= "failed")
            => SelectedVisible(app', visible_items(app, height))]_vars
    /\ [](phase \in {"draw", "poll"} /\ ~app.full_view_mode /\ app.filtered /= <<>>
            => \A rows \in Heights :
                   visible_items(app, rows) >= 1
                       => SelectedVisible(render(app, rows), visible_items(app, rows)))

\* C31, its case: a frame is due with the selected row below the window,
\* and the render brings it to the window's last row
C31_RenderScrollsDown ==
    /\ phase = "draw" /\ ~app.full_view_mode /\ app.filtered /= <<>>
    /\ visible_items(app, height) >= 1
    /\ app.selected >= app.list_scroll + visible_items(app, height)
    /\ render(app, height).list_scroll = app.selected - visible_items(app, height) + 1


(***************************************************************************)
(* Properties of the scroll clamps (SpecView)                              *)
(***************************************************************************)
\* the preview offset of a is at most lines - visible, or 0, for the preview
\* pane of a frame of the given height
PreviewClamped(a, rows) ==
    IsSome(selected_session(a))
        => a.preview_scroll <= SatSub(Unwrap(selected_session(a)).preview_lines,
                                      ContentHeight(a, rows))

\* C32 as stated: after every render, preview_scroll and full_content_scroll
\* are each at most max(0, lines - visible), lines the number of lines of
\* the pane drawn and visible its height.
C32_ScrollsClampedToLastPage ==
    phase \in {"draw", "poll"} =>
        \A rows \in Heights :
            LET b == render(app, rows)
            IN IF app.full_view_mode
               THEN b.full_content_scroll <= SatSub(Len(b.full_content), FullVisible(rows))
               ELSE PreviewClamped(b, rows)

\* C32: after every render of the list view preview_scroll is at most
\* max(0, lines - visible); after every render of the full view
\* full_content_scroll is at most max(0, lines - 1), whatever the height of
\* the pane, and a render leaves a smaller offset as it is.
C32_ScrollsClampedAfterRender ==
    phase \in {"draw", "poll"} =>
        \A rows \in Heights :
            LET b == render(app, rows)
            IN IF app.full_view_mode
               THEN /\ b.full_content_scroll <= SatSub(Len(b.full_content), 1)
                    /\ app.full_content_scroll <= SatSub(Len(app.full_content), 1)
                          => b.full_content_scroll = app.full_content_scroll
               ELSE PreviewClamped(b, rows)

\* C32, its case: the full view is to be drawn with the offset past the
\* last line of a transcript of several lines that fits the pane, and the
\* render leaves the offset at the last line, above lines - visible
C32_ClampedToLastLine ==
    /\ phase = "draw" /\ app.full_view_mode
    /\ Len(app.full_content) >= 2 /\ Len(app.full_content) <= FullVisible(height)
    /\ app.full_content_scroll > Len(app.full_content)
    /\ render(app, height).full_content_scroll = Len(app.full_content) - 1


(***************************************************************************)
(* Properties of the sort toggle (Spec)                                    *)
(***************************************************************************)
\* the App after Ctrl-S
AfterCtrlS(a) == on_key(a, Ctrl("s"))
\* no row of a is older than the row after it
NewestFirst(a) ==
    \A k \in 1..(Len(a.filtered) - 1) : ~LexLess(ModifiedAt(a, k), ModifiedAt(a, k + 1))
\* with a query, Ctrl-S keeps the rows and orders them by the mode it
\* switches to: descending modified, or the engine's ranking
SwitchesOrder(a, b) ==
    /\ b.sort_by_time = ~a.sort_by_time
    /\ Range(b.filtered) = Range(a.filtered)
    /\ IF b.sort_by_time THEN NewestFirst(b)
       ELSE InRankOrder(b, FilteredIds(b), RankedSatisfying(b))

C33_CtrlSReorders ==
    /\ phase = "poll" /\ Mode(app) = "normal" /\ app.query /= <<>>
    /\ AfterCtrlS(app).filtered /= app.filtered


(***************************************************************************)
(* Properties of the home filter (SpecFilter)                              *)
(***************************************************************************)
\* a with both home filters unset
WithoutHomes(a) == [a EXCEPT !.filter_claude_home = None, !.filter_codex_home = None]
\* the sessions with no recorded home that a lists
UnknownHomeRows(a) == {i \in Range(a.filtered) : sessions[i].claude_home = <<>>}

\* C34: a session whose recorded home is empty passes the home filter
\* whatever filter_claude_home and filter_codex_home are, with an empty and
\* with a non-empty query: when no max_results cuts the list, every such
\* session listed with the home filters unset is listed with them set.
C34_EmptyHomeMatchesAny ==
    app.max_results = None
        => UnknownHomeRows(filter(WithoutHomes(app))) \subseteq Range(app.filtered)

\* the part of C34 that holds: with a blank query a session with no
\* recorded home is listed whenever it is listed with the home filters unset
EmptyHomeListedWithoutQuery ==
    (app.max_results = None /\ IsBlank(app.query))
        => UnknownHomeRows(filter(WithoutHomes(app))) \subseteq Range(app.filtered)

\* a blank query, the home filters set, and a session with no recorded home
\* listed
UnknownHomeListed ==
    /\ IsBlank(app.query) /\ IsSome(app.filter_claude_home)
    /\ UnknownHomeRows(app) /= {}


(***************************************************************************)
(* Properties of the transcript parser (SpecParse)                         *)
(***************************************************************************)
\* the well-formed, non-empty messages of a transcript: the lines that are
\* JSON, carry a role, and have text that is not all white space
IsMessage(line) ==
    /\ ~IsBlank(line.raw) /\ line.json /\ line.role /= ""
    /\ \E j \in 1..Len(line.msg) : ~IsBlank(line.msg[j])
Messages(content) == SelectSeq(content, IsMessage)
\* the lines of message k as the viewer shows them: a blank line first iff
\* the message before it has another role, then the first line behind
\* "> " for role user and behind the assistant mark otherwise, then the
\* continuation lines behind two spaces
Shown(msgs, k) ==
    (IF k > 1 /\ msgs[k - 1].role /= msgs[k].role THEN << <<>> >> ELSE <<>>)
        \o [i \in 1..Len(msgs[k].msg) |->
               (IF i > 1 THEN <<" ", " ">>
                ELSE IF msgs[k].role = "user" THEN <<">", " ">> ELSE AssistantPrefix)
                   \o msgs[k].msg[i]]
Conversation(msgs) ==
    LET upto[k \in 0..Len(msgs)] == IF k = 0 THEN <<>> ELSE upto[k - 1] \o Shown(msgs, k)
    IN upto[Len(msgs)]
\* the transcript the viewer has open
Opened == Unwrap(files[Unwrap(selected_session(app)).export_path])

\* C35: the parser's output depends only on the well-formed, non-empty
\* messages: malformed JSON lines and empty messages contribute nothing, a
\* blank line stands between two consecutive emitted messages iff their
\* roles differ, and each message's first line starts with "> " for role
\* user and with the assistant mark otherwise, continuation lines indented.
C35_ParserShowsMessagesOnly ==
    (app.full_view_mode /\ app.selected = 0)
        => /\ app.full_content = Conversation(Messages(Opened))
           /\ app.full_content = parse_jsonl_to_conversation(Messages(Opened))

\* C35, its case: the viewer is open on a transcript that has a malformed
\* line, an empty message and two messages of different roles
C35_MixedTranscriptOpened ==
    /\ app.full_view_mode /\ app.selected = 0
    /\ \E i \in 1..Len(Opened) : ~Opened[i].json
    /\ Len(Messages(Opened)) < Len(Opened)
    /\ \E i, j \in 1..Len(Messages(Opened)) :
          Messages(Opened)[i].role /= Messages(Opened)[j].role


(***************************************************************************)
(* Properties of the search in the viewer (SpecView)                       *)
(***************************************************************************)
\* the numbers, from 0, of the lines of full_content that contain the
\* pattern of a, letter case apart, in ascending order
LinesWithPattern(a) ==
    LET hit(i) == Contains(LowerStr(a.full_content[i]), LowerStr(a.view_search_pattern))
        upto[i \in 0..Len(a.full_content)] ==
            IF i = 0 THEN <<>>
            ELSE IF hit(i) THEN Append(upto[i - 1], i - 1) ELSE upto[i - 1]
    IN upto[Len(a.full_content)]
\* the viewer of a is open, its search prompt closed, with a pattern
SearchActive(a) == a.full_view_mode /\ ~a.view_search_mode /\ a.view_search_pattern /= <<>>

\* C36: in full view, whenever the search-entry prompt is closed and
\* view_search_pattern is non-empty, view_search_matches is exactly the
\* ascending list of the line indices of full_content that contain the
\* pattern case-insensitively, never the matches of an earlier pattern.
C36_MatchesAreOfPattern ==
    SearchActive(app) => app.view_search_matches = LinesWithPattern(app)

\* the part of C36 that holds: Enter in the search-entry prompt leaves the
\* matches of the pattern entered
MatchesOfPatternAfterEnter ==
    (phase = "poll" /\ Mode(app) = "view-search-entry" /\ app.view_search_pattern /= <<>>)
        => on_key(app, Named("Enter")).view_search_matches = LinesWithPattern(app)

\* a pattern with matches has been entered
PatternEntered ==
    /\ SearchActive(app) /\ app.view_search_matches /= <<>>
    /\ app.view_search_matches = LinesWithPattern(app)


\* the App after `n`, after `N`, and after `n` then `N`
AfterNext(a) == on_key(a, Char("n"))
AfterPrev(a) == on_key(a, Char("N"))
\* a has the match numbered cur current and its line at the top
AtMatch(a, b, cur) ==
    /\ b.view_search_current = cur
    /\ b.view_search_matches = a.view_search_matches
    /\ b.full_content_scroll = a.view_search_matches[cur + 1]

\* C37: view_search_current < |view_search_matches| whenever there are
\* matches; in an active search `n` advances cyclically and `N` goes back
\* cyclically, each setting full_content_scroll to its match's line, so `n`
\* followed by `N` returns to the same match; with no matches both keys
\* change nothing.
C37_MatchNavigationCyclic ==
    /\ app.view_search_matches /= <<>>
          => app.view_search_current < Len(app.view_search_matches)
    /\ (phase = "poll" /\ Mode(app) = "view-search-active") =>
          IF app.view_search_matches = <<>>
          THEN AfterNext(app) = app /\ AfterPrev(app) = app
          ELSE LET n == Len(app.view_search_matches)
               IN /\ AtMatch(app, AfterNext(app), (app.view_search_current + 1) % n)
                  /\ AtMatch(app, AfterPrev(app), (app.view_search_current + n - 1) % n)
                  /\ AtMatch(app, AfterPrev(AfterNext(app)), app.view_search_current)

\* C37, its case: the last of several matches is current and the view is
\* scrolled away from it; `n` wraps to the first, `N` after it comes back
C37_WrapsFromLastMatch ==
    /\ phase = "poll" /\ Mode(app) = "view-search-active"
    /\ Len(app.view_search_matches) >= 2
    /\ app.view_search_current = Len(app.view_search_matches) - 1
    /\ app.full_content_scroll /= app.view_search_matches[app.view_search_current + 1]
    /\ AfterNext(app).view_search_current = 0
    /\ AfterPrev(AfterNext(app)).view_search_current = app.view_search_current


(***************************************************************************)
(* Properties of Esc (SpecModes)                                           *)
(***************************************************************************)
\* the App after Esc
AfterEsc(a) == on_key(a, Named("Esc"))
\* normal mode with no overlay open, or the program asked to quit
Settled(a) ==
    \/ a.should_quit
    \/ /\ Mode(a) = "normal"
       /\ ~a.confirming_exit /\ ~a.full_view_mode /\ ~a.view_search_mode
       /\ ~a.scope_modal_open /\ ~a.filter_modal_open /\ ~a.command_mode
       /\ a.action_mode = None /\ a.input_mode = None /\ a.jump_input = <<>>
\* the filters but the query: the inclusion flags, the agent, min-lines and
\* date filters, the scope, the directory and the sort mode
FiltersButQuery(a) ==
    <<a.include_original, a.include_sub, a.include_trimmed, a.include_continued,
      a.filter_agent, a.filter_min_lines, a.filter_after_date, a.filter_before_date,
      a.scope_global, a.filter_dir, a.sort_by_time>>

\* C38: Esc is a universal cancel: from every reachable state at most three
\* presses of Esc reach normal mode with no overlay open or the program's
\* quit, and no press of Esc changes a filter other than by clearing the
\* query or the in-view search pattern.
C38_EscCancelsWithinThree ==
    phase = "poll" =>
        /\ \/ Settled(app) \/ Settled(AfterEsc(app))
           \/ Settled(AfterEsc(AfterEsc(app)))
           \/ Settled(AfterEsc(AfterEsc(AfterEsc(app))))
        /\ FiltersButQuery(AfterEsc(app)) = FiltersButQuery(app)
        /\ AfterEsc(app).query \in {app.query, <<>>}
        /\ AfterEsc(app).view_search_pattern \in {app.view_search_pattern, <<>>}

\* C38, its case: the search prompt of the viewer is open with text typed
\* and a filter set, and the third press of Esc, not the second, reaches
\* normal mode
C38_ThreePressesNeeded ==
    /\ phase = "poll" /\ Mode(app) = "view-search-entry"
    /\ FiltersButQuery(app) /= FiltersButQuery(new_with_options(SearchIndex, DefaultCli))
    /\ ~Settled(AfterEsc(app)) /\ ~Settled(AfterEsc(AfterEsc(app)))
    /\ Settled(AfterEsc(AfterEsc(AfterEsc(app))))


(***************************************************************************)
(* Properties of the two resets (SpecRefilter)                             *)
(***************************************************************************)
\* what a reset covers: the four inclusion flags, the agent, min-lines,
\* after-date and before-date filters
ResetFields(a) ==
    <<a.include_original, a.include_sub, a.include_trimmed, a.include_continued,
      a.filter_agent, a.filter_min_lines, a.filter_after_date, a.filter_before_date>>
DefaultResetFields == <<TRUE, FALSE, TRUE, TRUE, None, None, None, None>>
\* the App after "Reset to defaults" in the filter modal, and after the
\* modal is closed and the reset of command mode is given
AfterModalReset(a) == on_key(a, Char("x"))
AfterCommandReset(a) == PressKeys(a, <<Named("Esc"), Char(":"), Char("x")>>)

\* C39: the two reset operations agree: after "Reset to defaults" in the
\* filter modal (x) the filter state is the same as after the command-mode
\* reset (:x), namely include_original/trimmed/continued true, include_sub
\* false, agent, min-lines, after-date and before-date all unset.
C39_ResetsAgree ==
    (phase = "poll" /\ Mode(app) = "filter-modal") =>
        /\ ResetFields(AfterModalReset(app)) = ResetFields(AfterCommandReset(app))
        /\ ResetFields(AfterModalReset(app)) = DefaultResetFields

\* the part of C39 that holds: the command-mode reset leaves the default
\* filter state, and the modal's reset leaves it but for the two dates,
\* which it leaves as they were
ModalResetKeepsDates ==
    (phase = "poll" /\ Mode(app) = "filter-modal") =>
        /\ ResetFields(AfterCommandReset(app)) = DefaultResetFields
        /\ ResetFields(AfterModalReset(app))
              = <<TRUE, FALSE, TRUE, TRUE, None, None,
                  app.filter_after_date, app.filter_before_date>>

\* the filter modal is open with a date filter and an inclusion flag set
ModalOpenWithDate ==
    /\ phase = "poll" /\ Mode(app) = "filter-modal"
    /\ IsSome(app.filter_after_date) /\ app.include_sub


(***************************************************************************)
(* Properties of the command line (SpecArgs)                               *)
(***************************************************************************)
\* the flags whose value is the argument after them
ValueFlags ==
    {Flag["--dir"], Flag["--claude-home"], Flag["--codex-home"], Flag["--after"],
     Flag["--before"], Flag["--query"]}
\* the positions, after the binary's name, of the arguments that are not
\* the value of a flag, do not begin with "-", and contain "/" or end in
\* ".json"
PositionalPaths(line) ==
    {i \in 2..Len(line) : /\ line[i - 1] \notin ValueFlags
                          /\ ~StartsWith(line[i], <<"-">>)
                          /\ \/ \E j \in 1..Len(line[i]) : line[i][j] = "/"
                             \/ EndsWith(line[i], <<".", "j", "s", "o", "n">>)}
LastOf(S) == CHOOSE i \in S : \A j \in S : j <= i

\* C40: CLI parsing never takes the argument value of a flag (--dir,
\* --claude-home, --codex-home, --after, --before, --query) as the handoff
\* output file: output_file is the last positional token that is not a
\* flag's value and contains "/" or ends in ".json", and is absent when
\* there is no such token.
C40_OutputFileNeverAFlagValue ==
    args /= NotParsed =>
        output_file = (IF PositionalPaths(args) = {} THEN None
                       ELSE Some(args[LastOf(PositionalPaths(args))]))

\* the part of C40 that holds: output_file is the last argument after the
\* binary's name that does not begin with "-" and contains "/" or ends in
\* ".json", the value of a flag or not, and is absent when there is none
OutputFileLastPathArg ==
    args /= NotParsed =>
        LET at == {i \in 2..Len(args) : /\ ~StartsWith(args[i], <<"-">>)
                                        /\ \/ \E j \in 1..Len(args[i]) : args[i][j] = "/"
                                           \/ EndsWith(args[i], <<".", "j", "s", "o", "n">>)}
        IN output_file = (IF at = {} THEN None ELSE Some(args[LastOf(at)]))

\* the handoff has been written to the file named by the value of --dir
HandoffToFlagValue ==
    /\ phase = "exited" /\ Len(handoff) = 1 /\ handoff[1].to = "file"
    /\ args = <<Binary, Flag["--dir"], <<"/", "p">>>>


====
